---- MODULE Spec2Model ----
(***************************************************************************)
(* ghostroot: the JSON list stores of tools.py and the full cycle of       *)
(* run.py, as a state machine.                                             *)
(*                                                                         *)
(* A Python dict is a function from its keys (strings) to its values, so a *)
(* key that is absent is absent from the DOMAIN.  A JSON document on disk  *)
(* is a File; an element of a JSON list is an Item, which says whether it  *)
(* is an object (a dict once loaded) or some other JSON value.             *)
(***************************************************************************)
EXTENDS Integers, Sequences, FiniteSets, TLC

VARIABLES
    files,      \* path -> File: the three JSON documents under data/
    clock,      \* time.time() in milliseconds
    last,       \* the last direct call of a tools.py function: arguments and outcome
    pc,         \* where main() of run.py stands
    mem,        \* the local variables of main()
    pre,        \* files as they were when the current step of main() began
    found       \* files as the program found them when it started

vars == <<files, clock, last, pc, mem, pre, found>>

cycleVars == <<pc, mem, pre, found>>

(***************************************************************************)
(* Bounds of the model.                                                    *)
(***************************************************************************)
MaxLen == 2         \* longest list a direct append may extend
MaxTicks == 1       \* clock advances per behaviour

\* int(time.time() * 1000) against int(time.time())
MsPerSec == 1000

\* Python's None where a timestamp is expected (JSON null)
NoneTs == 0 - 1

Paths == {"artifacts", "research_log", "research_questions"}

(***************************************************************************)
(* JSON documents and Python values.                                       *)
(***************************************************************************)
Missing == [kind |-> "missing"]             \* path.exists() is False
Malformed == [kind |-> "malformed"]         \* json.loads raises JSONDecodeError
NonList == [kind |-> "nonlist"]             \* valid JSON, top level not a list
ListFile(items) == [kind |-> "list", items |-> items]

Obj(d) == [isdict |-> TRUE, d |-> d]        \* a JSON object
Other(v) == [isdict |-> FALSE, v |-> v]     \* any other JSON value

\* dict.get(k, default)
Get(r, k, default) == IF k \in DOMAIN r THEN r[k] ELSE default

\* d[k] = v on a dict
Put(r, k, v) == [x \in (DOMAIN r) \cup {k} |-> IF x = k THEN v ELSE r[x]]

\* json.dumps of a list of dicts, as the items of the document written
Dumps(items) == [i \in 1..Len(items) |-> Obj(items[i])]

EmptyDict == [x \in {} |-> x]               \* {}

HasKey(r, k) == k \in DOMAIN r

(***************************************************************************)
(* tools.py: the store.  A function that may raise returns [raised, ...];  *)
(* file is the document it leaves at the path either way.                  *)
(***************************************************************************)
\* mutant: a document that is not a list is taken for an empty one
ensure_repairs_nonlist(f) ==
    IF f.kind = "missing" THEN [raised |-> FALSE, file |-> ListFile(<<>>)]
    ELSE IF f.kind = "malformed" THEN [raised |-> TRUE, file |-> f]
    ELSE IF f.kind # "list" THEN [raised |-> FALSE, file |-> ListFile(<<>>)]
    ELSE [raised |-> FALSE, file |-> f]

_ensure_json_list_file(f) ==
    IF f.kind = "missing" THEN [raised |-> FALSE, file |-> ListFile(<<>>)]
    ELSE IF f.kind = "malformed" THEN [raised |-> TRUE, file |-> f]
    ELSE IF f.kind # "list" THEN [raised |-> TRUE, file |-> f]
    ELSE [raised |-> FALSE, file |-> f]

\* the element load_json_list returns for item number i (from 0) of the document
LoadItem(i, item) ==
    IF item.isdict THEN item.d
    ELSE [_invalid_index |-> i, value |-> item.v]

\* mutant: the load answers for a missing document without creating it
load_without_create(f) ==
    IF f.kind = "missing" THEN [raised |-> FALSE, file |-> f, ret |-> <<>>]
    ELSE IF f.kind # "list" THEN [raised |-> TRUE, file |-> f, ret |-> <<>>]
    ELSE [raised |-> FALSE, file |-> f,
          ret |-> [i \in 1..Len(f.items) |-> LoadItem(i - 1, f.items[i])]]

\* a wrong load: what is no record is left out
load_json_list_records_only(f) ==
    LET e == _ensure_json_list_file(f)
        IsRecord(item) == item.isdict
    IN
    IF e.raised THEN [raised |-> TRUE, file |-> e.file, ret |-> <<>>]
    ELSE LET records == SelectSeq(e.file.items, IsRecord) IN
         [raised |-> FALSE, file |-> e.file,
          ret |-> [i \in 1..Len(records) |-> records[i].d]]

load_json_list(f) ==
    LET e == _ensure_json_list_file(f) IN
    IF e.raised THEN [raised |-> TRUE, file |-> e.file, ret |-> <<>>]
    ELSE [raised |-> FALSE, file |-> e.file,
          ret |-> [i \in 1..Len(e.file.items) |-> LoadItem(i - 1, e.file.items[i])]]

write_json_list(f, items) ==
    LET e == _ensure_json_list_file(f) IN
    IF e.raised THEN [raised |-> TRUE, file |-> e.file]
    ELSE [raised |-> FALSE, file |-> ListFile(Dumps(items))]

load_artifacts(f) == load_json_list(f)

load_research_questions(f) == load_json_list(f)

\* mutant: the new artifact is put first
add_artifact_first(f, artifact) ==
    LET l == load_json_list(f) IN
    IF l.raised THEN [raised |-> TRUE, file |-> l.file]
    ELSE write_json_list(l.file, <<artifact>> \o l.ret)

add_artifact(f, artifact) ==
    LET l == load_json_list(f) IN
    IF l.raised THEN [raised |-> TRUE, file |-> l.file]
    ELSE write_json_list(l.file, Append(l.ret, artifact))

\* a wrong append: the entry is put before the entries of the log
append_research_log_first(f, entry) ==
    LET l == load_json_list(f) IN
    IF l.raised THEN [raised |-> TRUE, file |-> l.file]
    ELSE write_json_list(l.file, <<entry>> \o l.ret)

append_research_log(f, entry) ==
    LET l == load_json_list(f) IN
    IF l.raised THEN [raised |-> TRUE, file |-> l.file]
    ELSE write_json_list(l.file, Append(l.ret, entry))

append_research_question(f, question) ==
    LET l == load_json_list(f) IN
    IF l.raised THEN [raised |-> TRUE, file |-> l.file]
    ELSE write_json_list(l.file, Append(l.ret, question))

\* {u[key]: u for u in updates ...}: the update kept for an id is the last one
LastIndexWith(updates, key, id) ==
    CHOOSE i \in 1..Len(updates) :
        /\ HasKey(updates[i], key) /\ updates[i][key] = id
        /\ \A j \in (i + 1)..Len(updates) :
              ~(HasKey(updates[j], key) /\ updates[j][key] = id)

UpdateKeys(updates, key) ==
    {updates[i][key] : i \in {j \in 1..Len(updates) : HasKey(updates[j], key)}}

\* question.get('id') in updates_by_id; the ids of updates are strings, so the
\* None of a record without id is in no lookup
Matched(record, keys) == HasKey(record, "id") /\ record.id \in keys

\* mutant: the stored question is replaced by the update
UpdateQuestion_replace(question, update, now) == Put(update, "updated_at", now)

\* a wrong update: the three fields are always written, with defaults
UpdateQuestion_defaults(question, update, now) ==
    Put(Put(Put(question, "proposed_answer", Get(update, "proposed_answer", "")),
            "confidence", Get(update, "confidence", "low")),
        "updated_at", now)

UpdateQuestion(question, update, now) ==
    LET q1 == IF HasKey(update, "proposed_answer")
              THEN Put(question, "proposed_answer", update.proposed_answer)
              ELSE question
        q2 == IF HasKey(update, "confidence")
              THEN Put(q1, "confidence", update.confidence)
              ELSE q1
    IN Put(q2, "updated_at", now)

\* mutant: the timestamp is set on every question, matched or not
update_research_questions_stamp_all(f, question_updates, now) ==
    LET l == load_json_list(f)
        keys == UpdateKeys(question_updates, "id")
        hit(q) == Matched(q, keys)
        questions == [i \in 1..Len(l.ret) |->
            IF hit(l.ret[i])
            THEN UpdateQuestion(l.ret[i],
                     question_updates[LastIndexWith(question_updates, "id", l.ret[i].id)], now)
            ELSE Put(l.ret[i], "updated_at", now)]
    IN
    IF l.raised THEN [raised |-> TRUE, file |-> l.file, count |-> 0]
    ELSE [raised |-> FALSE, file |-> write_json_list(l.file, questions).file,
          count |-> Cardinality({i \in 1..Len(l.ret) : hit(l.ret[i])})]

update_research_questions(f, question_updates, now) ==
    LET l == load_json_list(f)
        keys == UpdateKeys(question_updates, "id")
        hit(q) == Matched(q, keys)
        questions == [i \in 1..Len(l.ret) |->
            IF hit(l.ret[i])
            THEN UpdateQuestion(l.ret[i],
                     question_updates[LastIndexWith(question_updates, "id", l.ret[i].id)], now)
            ELSE l.ret[i]]
    IN
    IF l.raised THEN [raised |-> TRUE, file |-> l.file, count |-> 0]
    ELSE [raised |-> FALSE, file |-> write_json_list(l.file, questions).file,
          count |-> Cardinality({i \in 1..Len(l.ret) : hit(l.ret[i])})]

\* a wrong update: the metadata is made anew from the update
UpdateArtifact_fresh_metadata(artifact, update, now) ==
    Put(artifact, "metadata",
        [gloss |-> update.gloss, confidence |-> update.confidence,
         gloss_updated_at |-> now])

UpdateArtifact(artifact, update, now) ==
    LET m0 == IF HasKey(artifact, "metadata") THEN artifact.metadata ELSE EmptyDict
        m1 == Put(m0, "gloss", update.gloss)
        m2 == Put(m1, "confidence", update.confidence)
        m3 == Put(m2, "gloss_updated_at", now)
    IN Put(artifact, "metadata", m3)

\* gloss_updates holds Items: what json.loads made of the service's answer
update_artifact_glosses(f, gloss_updates, now) ==
    LET l == load_json_list(f)
        \* u['artifact_id'] raises on a non-dict (TypeError) or a missing key (KeyError)
        lookupRaises == \E i \in 1..Len(gloss_updates) :
            \/ ~gloss_updates[i].isdict
            \/ ~HasKey(gloss_updates[i].d, "artifact_id")
        updates == [i \in 1..Len(gloss_updates) |-> gloss_updates[i].d]
        keys == UpdateKeys(updates, "artifact_id")
        hit(a) == Matched(a, keys)
        upd(a) == updates[LastIndexWith(updates, "artifact_id", a.id)]
        \* update['gloss'], update['confidence'] raise KeyError on a missing key
        loopRaises == \E i \in 1..Len(l.ret) :
            /\ hit(l.ret[i])
            /\ ~(HasKey(upd(l.ret[i]), "gloss") /\ HasKey(upd(l.ret[i]), "confidence"))
        artifacts == [i \in 1..Len(l.ret) |->
            IF hit(l.ret[i]) THEN UpdateArtifact(l.ret[i], upd(l.ret[i]), now)
            ELSE l.ret[i]]
    IN
    IF l.raised THEN [raised |-> TRUE, file |-> l.file, count |-> 0]
    ELSE IF lookupRaises THEN [raised |-> TRUE, file |-> l.file, count |-> 0]
    ELSE IF loopRaises THEN [raised |-> TRUE, file |-> l.file, count |-> 0]
    ELSE [raised |-> FALSE, file |-> write_json_list(l.file, artifacts).file,
          count |-> Cardinality({i \in 1..Len(l.ret) : hit(l.ret[i])})]

(***************************************************************************)
(* tools.py: search_artifacts.  A str is here the sequence of its          *)
(* characters, so that a substring is something to be found.               *)
(***************************************************************************)
\* str.lower() of one character
LowerChar(c) == IF c = "K" THEN "k" ELSE IF c = "A" THEN "a" ELSE c

\* s.lower()
LowerStr(s) == [i \in 1..Len(s) |-> LowerChar(s[i])]

\* s.strip()
Strip(s) ==
    LET solid == {i \in 1..Len(s) : s[i] # " "} IN
    IF solid = {} THEN <<>>
    ELSE SubSeq(s, CHOOSE i \in solid : \A j \in solid : i <= j,
                   CHOOSE i \in solid : \A j \in solid : i >= j)

\* needle in hay
Contains(hay, needle) ==
    \E k \in 0..(Len(hay) - Len(needle)) :
        \A i \in 1..Len(needle) : hay[k + i] = needle[i]

\* " ".join(hay)
RECURSIVE Join(_)
Join(hay) ==
    IF Len(hay) = 0 THEN <<>>
    ELSE IF Len(hay) = 1 THEN hay[1]
    ELSE hay[1] \o <<" ">> \o Join(Tail(hay))

\* a value of a field: a str, or another value with the text str() makes of it
Str(s) == [isstr |-> TRUE, s |-> s]
NonStr(s) == [isstr |-> FALSE, s |-> s]

\* fields=None, or the list given
NoFields == [given |-> FALSE]
Fields(names) == [given |-> TRUE, names |-> names]

DefaultFields == <<"id", "language", "type", "text">>

\* hay of one artifact: a.get(f) is None for a key that is absent
Hay(a, fields) ==
    LET present == {i \in 1..Len(fields) : HasKey(a, fields[i])}
    IN [k \in 1..Cardinality(present) |->
           a[fields[CHOOSE i \in present :
                        Cardinality({j \in present : j < i}) = k - 1]].s]

\* a wrong search: the empty keyword is looked for like any other
search_artifacts_unguarded(artifacts, keyword, fields) ==
    LET keyword_lc == Strip(LowerStr(keyword))
        names == IF fields.given THEN fields.names ELSE DefaultFields
        hit == {i \in 1..Len(artifacts) :
                   Contains(LowerStr(Join(Hay(artifacts[i], names))), keyword_lc)}
    IN [k \in 1..Cardinality(hit) |->
           artifacts[CHOOSE i \in hit : Cardinality({j \in hit : j < i}) = k - 1]]

search_artifacts(artifacts, keyword, fields) ==
    LET keyword_lc == Strip(LowerStr(keyword))
        names == IF fields.given THEN fields.names ELSE DefaultFields
        hit == {i \in 1..Len(artifacts) :
                   Contains(LowerStr(Join(Hay(artifacts[i], names))), keyword_lc)}
    IN IF keyword_lc = <<>> THEN <<>>
       ELSE [k \in 1..Cardinality(hit) |->
               artifacts[CHOOSE i \in hit : Cardinality({j \in hit : j < i}) = k - 1]]

\* f"{prefix}{int(time.time() * 1000)}"
make_id(prefix, ms) == prefix \o ToString(ms)

NowSec == clock \div MsPerSec

(***************************************************************************)
(* The clock.  It never goes back; it moves on by a millisecond or to the  *)
(* start of the next second.                                               *)
(***************************************************************************)
\* the program starts at a whole second; what the stores hold was written before
StartMs == MsPerSec

\* the advances that lead from the start to ms
Ticks(ms) == (ms \div MsPerSec) - (StartMs \div MsPerSec) + (ms % MsPerSec)

Advance(ms) == {ms + 1, ((ms \div MsPerSec) + 1) * MsPerSec}

(***************************************************************************)
(* Direct calls of the store's functions, as the tests make them.          *)
(***************************************************************************)
SampleArtifacts ==
    { [id |-> "A1", language |-> "branch_a", type |-> "inscription",
       text |-> <<"foo">>, metadata |-> EmptyDict],
      [id |-> "A2", language |-> "branch_b", type |-> "sentence",
       text |-> <<"haru", "mer">>] }

SampleQuestions ==
    { [id |-> "Q1", question |-> "q1", proposed_answer |-> "", confidence |-> "low",
       research_note_id |-> "R1", created_at |-> 0],
      [id |-> "Q2", question |-> "q2"] }

SampleNotes == { [id |-> "R1", type |-> "research_note", summary |-> "s"] }

SampleQuestionUpdates ==
    { [id |-> "Q1", proposed_answer |-> "a", confidence |-> "high"],
      [id |-> "Q2", confidence |-> "medium"],
      [id |-> "Q9", proposed_answer |-> "b", confidence |-> "low"],
      [proposed_answer |-> "c"] }

SampleGlossUpdates ==
    { Obj([artifact_id |-> "A1", gloss |-> "water", confidence |-> "medium"]),
      Obj([artifact_id |-> "A2", gloss |-> "", meaning |-> "m", confidence |-> "low"]),
      Obj([artifact_id |-> "A8", meaning |-> "m"]),
      Obj([gloss |-> "y", confidence |-> "low"]) }

\* the documents a test may find or put at a path before the calls
StartFiles ==
    { Missing, Malformed, NonList, ListFile(<<>>), ListFile(<<Other("5")>>),
      ListFile(<<Obj([id |-> "X1"]), Other("7")>>) }

SeqsUpTo(S, n) == UNION {[1..k -> S] : k \in 0..n}

NoCall ==
    [op |-> "none", path |-> "artifacts", pre |-> Missing, raised |-> FALSE,
     ret |-> <<>>, count |-> 0, rec |-> EmptyDict, updates |-> <<>>]

\* a test works on one path (its tmp_path): the other documents stay absent
Alone(p) == \A q \in Paths \ {p} : files[q].kind = "missing"

Room(p) == files[p].kind = "list" => Len(files[p].items) < MaxLen

CallLoad(p) ==
    LET r == load_json_list(files[p]) IN
    /\ Alone(p)
    /\ files' = [files EXCEPT ![p] = r.file]
    /\ last' = [NoCall EXCEPT !.op = "load", !.path = p, !.pre = files[p],
                              !.raised = r.raised, !.ret = r.ret]
    /\ UNCHANGED <<clock, cycleVars>>

CallAppend(p, rec) ==
    LET r == CASE p = "artifacts" -> add_artifact(files[p], rec)
               [] p = "research_log" -> append_research_log(files[p], rec)
               [] OTHER -> append_research_question(files[p], rec)
    IN
    /\ Alone(p)
    /\ Room(p)
    /\ files' = [files EXCEPT ![p] = r.file]
    /\ last' = [NoCall EXCEPT !.op = "append", !.path = p, !.pre = files[p],
                              !.raised = r.raised, !.rec = rec]
    /\ UNCHANGED <<clock, cycleVars>>

CallAddArtifact == \E rec \in SampleArtifacts : CallAppend("artifacts", rec)

CallAppendLog == \E rec \in SampleNotes : CallAppend("research_log", rec)

CallAppendQuestion == \E rec \in SampleQuestions : CallAppend("research_questions", rec)

CallUpdateQuestions ==
    \E ups \in SeqsUpTo(SampleQuestionUpdates, 2) :
        LET p == "research_questions"
            r == update_research_questions(files[p], ups, NowSec)
        IN
        /\ Alone(p)
        /\ files' = [files EXCEPT ![p] = r.file]
        /\ last' = [NoCall EXCEPT !.op = "update", !.path = p, !.pre = files[p],
                                  !.raised = r.raised, !.count = r.count,
                                  !.updates = ups]
        /\ UNCHANGED <<clock, cycleVars>>

CallUpdateGlosses ==
    \E ups \in SeqsUpTo(SampleGlossUpdates, 2) :
        LET p == "artifacts"
            r == update_artifact_glosses(files[p], ups, NowSec)
        IN
        /\ Alone(p)
        /\ files' = [files EXCEPT ![p] = r.file]
        /\ last' = [NoCall EXCEPT !.op = "update", !.path = p, !.pre = files[p],
                                  !.raised = r.raised, !.count = r.count,
                                  !.updates = [i \in 1..Len(ups) |-> ups[i].d]]
        /\ UNCHANGED <<clock, cycleVars>>

\* between two direct calls: the store reads the clock in whole seconds only
TickSecond ==
    /\ Ticks(clock) < MaxTicks
    /\ clock' = ((clock \div MsPerSec) + 1) * MsPerSec
    /\ UNCHANGED <<files, last, cycleVars>>

\* the locals of main() before anything is assigned
NoMem ==
    [mode |-> "none", count |-> 0, run |-> 0,
     artifacts |-> <<>>, artifact_id |-> "", speaker |-> "none",
     new_artifacts |-> <<>>, entry_id |-> "", existing_questions |-> <<>>,
     qraw |-> [json |-> "none"], graw |-> [json |-> "none"],
     note |-> EmptyDict, new_questions |-> <<>>, updated_questions |-> <<>>,
     glosses |-> <<>>, context_entry_id |-> "", context_note |-> EmptyDict,
     i |-> 0, failed |-> "none"]

Init ==
    /\ files \in {f \in [Paths -> StartFiles] : \E p \in Paths : \A q \in Paths \ {p} : f[q] = Missing}
    /\ clock = StartMs
    /\ last = NoCall
    /\ pc = "idle"
    /\ mem = NoMem
    /\ pre = files
    /\ found = files

Next ==
    \/ \E p \in Paths : CallLoad(p)
    \/ CallAddArtifact
    \/ CallAppendLog
    \/ CallAppendQuestion
    \/ CallUpdateQuestions
    \/ CallUpdateGlosses
    \/ TickSecond

Spec == Init /\ [][Next]_vars

(***************************************************************************)
(* Direct calls of search_artifacts on a corpus in memory.                 *)
(***************************************************************************)
MaxCorpus == 2      \* longest corpus searched

SearchArtifacts ==
    { [id |-> Str(<<"A", "1">>), language |-> Str(<<"x">>),
       type |-> Str(<<"i">>), text |-> Str(<<"k", "a", " ", "m">>)],
      [id |-> Str(<<"A", "2">>), language |-> Str(<<"y">>),
       text |-> Str(<<"K", "a">>)],
      [id |-> NonStr(<<"7">>), type |-> Str(<<"s">>), text |-> Str(<<"m">>)] }

SearchKeywords ==
    { <<>>, <<" ">>, <<"k", "a">>, <<"K", "A">>, <<" ", "m", " ">>,
      <<"a", " ", "m">>, <<"1", " ", "x">>, <<"z">>, <<"7">> }

SearchFields ==
    { NoFields, Fields(<<>>), Fields(<<"id">>), Fields(<<"text">>),
      Fields(<<"language", "text">>) }

NoSearch ==
    [op |-> "none", artifacts |-> <<>>, keyword |-> <<>>, fields |-> NoFields,
     ret |-> <<>>]

SearchInit ==
    /\ files = [p \in Paths |-> Missing]
    /\ clock = StartMs
    /\ \E artifacts \in SeqsUpTo(SearchArtifacts, MaxCorpus),
          keyword \in SearchKeywords, fields \in SearchFields :
         last = [NoSearch EXCEPT !.artifacts = artifacts, !.keyword = keyword,
                                 !.fields = fields]
    /\ pc = "idle"
    /\ mem = NoMem
    /\ pre = files
    /\ found = files

CallSearch ==
    /\ last.op = "none"
    /\ last' = [last EXCEPT !.op = "search",
                   !.ret = search_artifacts(last.artifacts, last.keyword, last.fields)]
    /\ UNCHANGED <<files, clock, cycleVars>>

SearchNext == CallSearch

SearchSpec == SearchInit /\ [][SearchNext]_vars



(***************************************************************************)
(* The generation service.  Its answer is free text; what json.loads makes *)
(* of the text is a JSON value.  A text is a sequence of words.            *)
(***************************************************************************)
NotJson == [json |-> "invalid"]             \* json.loads raises JSONDecodeError
JScalar == [json |-> "scalar"]              \* a number or null: no iterable
JList(items) == [json |-> "list", items |-> items]
JDict(d) == [json |-> "dict", d |-> d]

\* seq[-n:]
LastN(seq, n) ==
    IF Len(seq) <= n THEN seq ELSE SubSeq(seq, Len(seq) - n + 1, Len(seq))

\* seq[:n]
FirstN(seq, n) == IF Len(seq) <= n THEN seq ELSE SubSeq(seq, 1, n)

\* [seq[k] for k in range(len(seq)) if k in keep]
RECURSIVE Pick(_, _, _)
Pick(seq, keep, k) ==
    IF k > Len(seq) THEN <<>>
    ELSE (IF k \in keep THEN <<seq[k]>> ELSE <<>>) \o Pick(seq, keep, k + 1)

\* str.lower() on the words the service is taken to use
Lower(w) == IF w = "Kar" THEN "kar" ELSE w

\* re.findall(r"[a-zA-Z...-]+", w) lowercased, for one word of a text
Tokens(w) ==
    IF w = "[timeout/error]" THEN <<"timeout", "error">> ELSE <<Lower(w)>>

\* s.strip() is empty
Blank(s) == s \in {"", " "}


(***************************************************************************)
(* agents/speaker.py                                                       *)
(***************************************************************************)
\* the words of f"[timeout/error] {e}"
ErrorText == <<"[timeout/error]", "timed", "out">>

\* random.choice(contexts) draws from these
Contexts == {"boundary marker inscription"}

\* settings.max_speaker_words
max_speaker_words == 6

\* what the service may answer to the speaker's prompt
SpeakerTexts == {<<"Kar", "mel">>}

\* _ollama_generate_http: how the call ends, and what it returns if it returns
SpeakerOutcomes ==
    {[how |-> "ok", raw |-> t] : t \in SpeakerTexts}
        \cup {[how |-> "unavailable", raw |-> ErrorText],   \* URLError, TimeoutError: caught
              [how |-> "protocol", raw |-> <<>>]}           \* JSONDecodeError: not caught

\* the words random.choice(all_words) draws from
AllWords(raw) ==
    LET long == {i \in 1..Len(raw) : Len(raw[i]) > 1}
    IN IF long # {} THEN {raw[i] : i \in long}
       ELSE IF Len(raw) > 0 THEN {raw[i] : i \in 1..Len(raw)}
       ELSE {"unk"}

NewMetadata(context) ==
    [context |-> context, gloss |-> "", meaning |-> "", confidence |-> "",
     gloss_updated_at |-> NoneTs]

\* a wrong speaker: the word record is stored under another type
generate_artifact_untyped(branch, artifact_id, max_words, raw, context, single_word) ==
    << [id |-> artifact_id, language |-> branch, type |-> "word",
        text |-> <<single_word>>, metadata |-> NewMetadata(context)],
       [id |-> artifact_id \o "_S", language |-> branch, type |-> "sentence",
        text |-> FirstN(raw, max_words), metadata |-> NewMetadata(context)] >>

\* the words drawn carry no quotation mark for re.sub to strip
generate_artifact(branch, artifact_id, max_words, raw, context, single_word) ==
    << [id |-> artifact_id, language |-> branch, type |-> "inscription",
        text |-> <<single_word>>, metadata |-> NewMetadata(context)],
       [id |-> artifact_id \o "_S", language |-> branch, type |-> "sentence",
        text |-> FirstN(raw, max_words), metadata |-> NewMetadata(context)] >>

(***************************************************************************)
(* agents/researcher.py                                                    *)
(***************************************************************************)
\* a.get('type') == 'sentence'
IsSentence(a) == HasKey(a, "type") /\ a.type = "sentence"

\* the keys of per_lang_tokens
LanguagesSeen(artifacts) ==
    {Get(artifacts[i], "language", "unknown") :
        i \in {j \in 1..Len(artifacts) : ~IsSentence(artifacts[j])}}

\* [t.lower() for t in re.findall(..., text)], word by word
RECURSIVE TextTokens(_)
TextTokens(text) ==
    IF Len(text) = 0 THEN <<>> ELSE Tokens(text[1]) \o TextTokens(Tail(text))

\* per_lang[lang] after the loop over artifacts[k..]
RECURSIVE LangTokens(_, _, _)
LangTokens(artifacts, lang, k) ==
    IF k > Len(artifacts) THEN <<>>
    ELSE (IF ~IsSentence(artifacts[k]) /\ Get(artifacts[k], "language", "unknown") = lang
          THEN TextTokens(Get(artifacts[k], "text", <<>>)) ELSE <<>>)
         \o LangTokens(artifacts, lang, k + 1)

\* a wrong extraction: the sentences are read like the inscriptions
_extract_tokens_with_sentences(artifacts) ==
    LET langs == {Get(artifacts[i], "language", "unknown") : i \in 1..Len(artifacts)}
        RECURSIVE all(_, _)
        all(lang, k) ==
            IF k > Len(artifacts) THEN <<>>
            ELSE (IF Get(artifacts[k], "language", "unknown") = lang
                  THEN TextTokens(Get(artifacts[k], "text", <<>>)) ELSE <<>>)
                 \o all(lang, k + 1)
    IN [lang \in langs |-> all(lang, 1)]

\* a language is a key once one of its records that is no sentence is read
_extract_tokens_from_artifacts(artifacts) ==
    [lang \in LanguagesSeen(artifacts) |-> LangTokens(artifacts, lang, 1)]

\* [w for w, _ in Counter(toks).most_common(n)]: by count, ties in the order
\* of first occurrence
MostCommon(toks, n) ==
    LET words == {toks[i] : i \in 1..Len(toks)}
        count(w) == Cardinality({i \in 1..Len(toks) : toks[i] = w})
        first(w) == CHOOSE i \in 1..Len(toks) :
                        toks[i] = w /\ \A j \in 1..(i - 1) : toks[j] # w
        before(v, w) == count(v) > count(w) \/ (count(v) = count(w) /\ first(v) < first(w))
        ranked == [k \in 1..Cardinality(words) |->
                      CHOOSE w \in words : Cardinality({v \in words : before(v, w)}) = k - 1]
    IN FirstN(ranked, n)

\* lang_summaries of analyze_corpus
LangSummaries(per_lang_tokens) ==
    [lang \in DOMAIN per_lang_tokens |->
        [token_count |-> Len(per_lang_tokens[lang]),
         top_tokens |-> MostCommon(per_lang_tokens[lang], 10)]]

\* has_gloss: metadata.get('gloss') and metadata['gloss'].strip()
HasGloss(a) ==
    LET metadata == Get(a, "metadata", EmptyDict)
    IN HasKey(metadata, "gloss") /\ ~Blank(metadata.gloss)

lookback == 20

max_to_gloss == 8

\* a wrong selection: the oldest candidates of the window are taken
GlossCandidates_oldest(artifacts) ==
    LET recent == LastN(artifacts, lookback)
        keep == {i \in 1..Len(recent) :
                    /\ ~IsSentence(recent[i])
                    /\ \/ ~HasGloss(recent[i])
                       \/ Get(Get(recent[i], "metadata", EmptyDict), "confidence", "none") = "low"}
    IN FirstN(Pick(recent, keep, 1), max_to_gloss)

\* a wrong selection: every recent record that is no sentence
GlossCandidates_all(artifacts) ==
    LET recent == LastN(artifacts, lookback)
        keep == {i \in 1..Len(recent) : ~IsSentence(recent[i])}
    IN LastN(Pick(recent, keep, 1), max_to_gloss)

\* candidates[-max_to_gloss:] of generate_artifact_glosses
GlossCandidates(artifacts) ==
    LET recent == LastN(artifacts, lookback)
        keep == {i \in 1..Len(recent) :
                    /\ ~IsSentence(recent[i])
                    /\ \/ ~HasGloss(recent[i])
                       \/ Get(Get(recent[i], "metadata", EmptyDict), "confidence", "none") = "low"}
    IN LastN(Pick(recent, keep, 1), max_to_gloss)

\* raw is what json.loads makes of the service's answer
generate_artifact_glosses(artifacts, served, raw) ==
    LET to_gloss == GlossCandidates(artifacts) IN
    IF Len(to_gloss) = 0 THEN [raised |-> FALSE, glosses |-> <<>>]
    \* a['id'] of a candidate without id; ask_ollama
    ELSE IF (\E i \in 1..Len(to_gloss) : ~HasKey(to_gloss[i], "id")) \/ ~served
    THEN [raised |-> TRUE, glosses |-> <<>>]
    ELSE IF raw.json = "list" THEN [raised |-> FALSE, glosses |-> raw.items]
    ELSE [raised |-> FALSE, glosses |-> <<>>]

\* q.get('confidence', '').lower() on the confidences the stores are taken to hold
LowerConfidence(c) == IF c = "Low" THEN "low" ELSE c

\* a wrong review: only the questions the claim calls open
questions_to_review_open(existing_questions) ==
    LET keep == {i \in 1..Len(existing_questions) :
                    LET q == existing_questions[i]
                        confidence == LowerConfidence(Get(q, "confidence", ""))
                        has_answer == HasKey(q, "proposed_answer") /\ ~Blank(q.proposed_answer)
                    IN confidence \in {"low", "medium"} \/ ~has_answer}
    IN Pick(existing_questions, keep, 1)

\* questions_to_review of generate_research_questions
questions_to_review(existing_questions) ==
    LET keep == {i \in 1..Len(existing_questions) :
                    LET q == existing_questions[i]
                        confidence == LowerConfidence(Get(q, "confidence", ""))
                        has_answer == HasKey(q, "proposed_answer") /\ ~Blank(q.proposed_answer)
                    IN confidence = "" \/ confidence \in {"low", "medium"} \/ ~has_answer}
    IN Pick(existing_questions, keep, 1)

\* eq.get('id') == ans.get('question_id'): None equals None
AnswerFits(eq, ans) ==
    IF HasKey(ans, "question_id") THEN HasKey(eq, "id") /\ eq.id = ans.question_id
    ELSE ~HasKey(eq, "id")

\* the loop over answers: existing is changed in place, hits are the indices of
\* the questions appended to updated_questions, in order
RECURSIVE ApplyAnswers(_, _, _, _)
ApplyAnswers(existing, answers, k, hits) ==
    IF k > Len(answers) THEN [existing |-> existing, hits |-> hits]
    ELSE
        LET ans == answers[k].d
            fits == {i \in 1..Len(existing) : AnswerFits(existing[i], ans)}
        IN
        IF fits = {} THEN ApplyAnswers(existing, answers, k + 1, hits)
        ELSE
            LET i == CHOOSE x \in fits : \A y \in fits : x <= y
                eq == Put(Put(existing[i], "proposed_answer", Get(ans, "proposed_answer", "")),
                          "confidence", Get(ans, "confidence", "low"))
            IN ApplyAnswers([existing EXCEPT ![i] = eq], answers, k + 1, Append(hits, i))

generate_research_questions(existing_questions, raw) ==
    IF raw.json # "dict"
    THEN [raised |-> FALSE, existing |-> existing_questions,
          new_questions |-> <<>>, updated_questions |-> <<>>]
    ELSE
        LET new_questions == Get(raw.d, "new_questions", JList(<<>>))
            answers == Get(raw.d, "answers", JList(<<>>))
        IN
        \* for ans in answers: ans.get(...); the elements of a dict are its keys
        IF \/ answers.json = "scalar"
           \/ answers.json = "dict" /\ DOMAIN answers.d # {}
           \/ answers.json = "list"
                /\ \E k \in 1..Len(answers.items) : ~answers.items[k].isdict
        THEN [raised |-> TRUE, existing |-> existing_questions,
              new_questions |-> <<>>, updated_questions |-> <<>>]
        ELSE
            LET r == ApplyAnswers(existing_questions,
                                  IF answers.json = "list" THEN answers.items ELSE <<>>,
                                  1, <<>>)
            IN [raised |-> FALSE, existing |-> r.existing,
                new_questions |-> IF new_questions.json = "list"
                                  THEN new_questions.items ELSE <<>>,
                updated_questions |-> [k \in 1..Len(r.hits) |-> r.existing[r.hits[k]]]]

\* served says whether every call of ask_ollama returned; summary is the text
\* of the first answer
analyze_corpus(entry_id, artifacts, existing_questions, served, summary, qraw, graw) ==
    LET q == generate_research_questions(existing_questions, qraw)
        g == generate_artifact_glosses(artifacts, served, graw)
        note == [id |-> entry_id, type |-> "research_note", summary |-> summary,
                 metadata |-> [artifact_count |-> Len(artifacts),
                               languages_seen |-> LanguagesSeen(artifacts)]]
    IN
    IF ~served \/ q.raised \/ g.raised
    THEN [raised |-> TRUE, note |-> EmptyDict, existing |-> existing_questions,
          new_questions |-> <<>>, updated_questions |-> <<>>, glosses |-> <<>>]
    ELSE [raised |-> FALSE, note |-> note, existing |-> q.existing,
          new_questions |-> q.new_questions,
          updated_questions |-> q.updated_questions,
          glosses |-> g.glosses]

(***************************************************************************)
(* agents/context_researcher.py                                            *)
(***************************************************************************)
\* the keys of word_glosses: the texts of the inscriptions that have a meaning
WordGlosses(artifacts) ==
    {Lower(artifacts[i].text[1]) :
        i \in {j \in 1..Len(artifacts) :
                 /\ HasKey(artifacts[j], "type") /\ artifacts[j].type = "inscription"
                 /\ HasKey(artifacts[j], "text") /\ Len(artifacts[j].text) = 1
                 /\ Get(Get(artifacts[j], "metadata", EmptyDict), "meaning", "") # ""}}

SentenceTokens(a) ==
    UNION {{Tokens(a.text[k])[n] : n \in 1..Len(Tokens(a.text[k]))} : k \in 1..Len(a.text)}

\* the keys of word_contexts
_extract_word_contexts(artifacts) ==
    {w \in WordGlosses(artifacts) :
        \E i \in 1..Len(artifacts) :
            /\ IsSentence(artifacts[i]) /\ HasKey(artifacts[i], "text")
            /\ w \in SentenceTokens(artifacts[i])}

\* sum(len(contexts) for contexts in word_contexts.values())
SentenceCount(artifacts) ==
    LET words == _extract_word_contexts(artifacts)
        sentences == {i \in 1..Len(artifacts) :
                         IsSentence(artifacts[i]) /\ HasKey(artifacts[i], "text")}
        occ == UNION {UNION {{<<i, k, n>> : n \in {m \in 1..Len(Tokens(artifacts[i].text[k])) :
                                          Tokens(artifacts[i].text[k])[m] \in words}} :
                             k \in 1..Len(artifacts[i].text)} :
                      i \in sentences}
    IN Cardinality(occ)

analyze_contextual_fit(entry_id, artifacts, served, summary) ==
    LET word_contexts == _extract_word_contexts(artifacts) IN
    IF word_contexts = {}
    THEN [raised |-> FALSE,
          note |-> [id |-> entry_id, type |-> "context_analysis",
                    summary |-> "No glossed words found in sentence contexts yet. Need more data.",
                    metadata |-> [words_analyzed |-> 0, contradictions_found |-> 0]]]
    ELSE IF ~served THEN [raised |-> TRUE, note |-> EmptyDict]
    ELSE [raised |-> FALSE,
          note |-> [id |-> entry_id, type |-> "context_analysis", summary |-> summary,
                    metadata |-> [words_analyzed |-> Cardinality(word_contexts),
                                  sentence_count |-> SentenceCount(artifacts)]]]


(***************************************************************************)
(* What the service may answer to the researcher's prompts, as parsed.     *)
(***************************************************************************)
IdsOf(records) ==
    {records[i].id : i \in {j \in 1..Len(records) : HasKey(records[j], "id")}}

AnswerItems(existing) ==
    {Other("junk")}
        \cup {Obj([question_id |-> id, proposed_answer |-> "ans", confidence |-> "high"]) :
                 id \in IdsOf(existing) \cup {"Q9"}}
        \cup {Obj([question_id |-> id]) : id \in IdsOf(existing)}

NewQuestionItems ==
    { Obj([question |-> "q1", proposed_answer |-> "", confidence |-> "low"]),
      Obj([question |-> "q2", proposed_answer |-> "guess", confidence |-> "high"]),
      Obj([question |-> "q3"]),
      Other("junk") }

NewQuestionLists ==
    {<<>>} \cup {<<n>> : n \in NewQuestionItems}
        \cup { <<Obj([question |-> "q1", proposed_answer |-> "", confidence |-> "low"]),
                 Obj([question |-> "q3"])>>,
               <<Obj([question |-> "q1", proposed_answer |-> "", confidence |-> "low"]),
                 Other("junk")>> }

QuestionResponses(existing) ==
    {NotJson, JList(<<>>), JDict(EmptyDict),
     JDict([answers |-> JScalar]), JDict([answers |-> JDict(EmptyDict)]),
     JDict([new_questions |-> JScalar])}
        \cup {JDict([answers |-> JList(<<>>), new_questions |-> JList(n)]) :
                 n \in NewQuestionLists}
        \cup {JDict([answers |-> JList(<<x>>), new_questions |-> JList(n)]) :
                 x \in AnswerItems(existing),
                 n \in {<<>>, <<Obj([question |-> "q1", proposed_answer |-> "",
                                      confidence |-> "low"])>>}}

\* the ids a proposal names: those of the artifacts the prompt lists, and that
\* of the oldest artifact
GlossTargets(artifacts) ==
    IdsOf(GlossCandidates(artifacts)) \cup IdsOf(FirstN(artifacts, 1))

GlossItems(artifacts) ==
    {Other("junk")}
        \cup {Obj([artifact_id |-> id, gloss |-> "water", meaning |-> "m",
                   confidence |-> "medium"]) : id \in GlossTargets(artifacts) \cup {"A9"}}
        \cup {Obj([artifact_id |-> id, meaning |-> "m", confidence |-> "low"]) :
                 id \in GlossTargets(artifacts)}
        \cup {Obj([artifact_id |-> id, gloss |-> "fire"]) : id \in GlossTargets(artifacts)}
        \cup {Obj([artifact_id |-> id, gloss |-> "stone", confidence |-> "med"]) :
                 id \in GlossTargets(artifacts)}

GlossResponses(artifacts) ==
    {NotJson, JDict(EmptyDict), JList(<<>>)}
        \cup {JList(<<x>>) : x \in GlossItems(artifacts)}

(***************************************************************************)
(* run.py: main().  Settings is taken to carry the paths and model names   *)
(* main() reads; the console output is left out.  A behaviour is one start *)
(* of the program; what earlier starts wrote is in the documents it finds. *)
(***************************************************************************)
MaxSpeakerCount == 2    \* the largest COUNT of --speaker

language == "ghostlang"

\* an exception leaves main(): the step that raised is remembered
Raise(step) ==
    /\ pc' = "raised"
    /\ mem' = [mem EXCEPT !.failed = step]
    /\ pre' = pre

Goto(step) == pc' = step /\ pre' = files'

StartCycle ==
    /\ pc = "idle"
    /\ pc' = "LoadCorpus"
    /\ mem' = [NoMem EXCEPT !.mode = "cycle"]
    /\ pre' = files
    /\ UNCHANGED <<files, clock, last, found>>

\* Step 0
LoadCorpus ==
    /\ pc = "LoadCorpus"
    /\ LET r == load_artifacts(files["artifacts"]) IN
       /\ files' = [files EXCEPT !["artifacts"] = r.file]
       /\ IF r.raised THEN Raise("LoadCorpus")
          ELSE mem' = [mem EXCEPT !.artifacts = r.ret] /\ Goto("Generate")
    /\ UNCHANGED <<clock, last, found>>

\* Step 1
Generate ==
    /\ pc = "Generate"
    /\ \E o \in SpeakerOutcomes, context \in Contexts :
         \E word \in AllWords(o.raw) :
           LET artifact_id == make_id("A", clock) IN
           IF o.how = "protocol"
           THEN /\ pc' = "raised"
                /\ mem' = [mem EXCEPT !.artifact_id = artifact_id, !.speaker = o.how,
                                      !.failed = "Generate"]
                /\ pre' = pre
           ELSE /\ mem' = [mem EXCEPT
                        !.artifact_id = artifact_id, !.speaker = o.how,
                        !.new_artifacts = generate_artifact(language, artifact_id,
                                              max_speaker_words, o.raw, context, word)]
                /\ pc' = "PersistArtifacts"
                /\ pre' = files
    /\ UNCHANGED <<files, clock, last, found>>

\* for art in new_artifacts: add_artifact(path, art)
RECURSIVE AddAll(_, _, _)
AddAll(f, arts, k) ==
    IF k > Len(arts) THEN [raised |-> FALSE, file |-> f]
    ELSE LET r == add_artifact(f, arts[k]) IN
         IF r.raised THEN r ELSE AddAll(r.file, arts, k + 1)

\* a wrong Step 2: the analysis follows at once, without the reload
PersistArtifacts_no_reload ==
    /\ pc = "PersistArtifacts"
    /\ LET r == AddAll(files["artifacts"], mem.new_artifacts, 1) IN
       /\ files' = [files EXCEPT !["artifacts"] = r.file]
       /\ IF r.raised THEN Raise("PersistArtifacts")
          ELSE mem' = mem /\ Goto("LoadQuestions")
    /\ UNCHANGED <<clock, last, found>>

\* Step 2
PersistArtifacts ==
    /\ pc = "PersistArtifacts"
    /\ LET r == AddAll(files["artifacts"], mem.new_artifacts, 1) IN
       /\ files' = [files EXCEPT !["artifacts"] = r.file]
       /\ IF r.raised THEN Raise("PersistArtifacts")
          ELSE mem' = mem /\ Goto("ReloadCorpus")
    /\ UNCHANGED <<clock, last, found>>

\* a wrong Step 3: the corpus of Step 0 is kept
ReloadCorpus_stale ==
    /\ pc = "ReloadCorpus"
    /\ files' = files
    /\ mem' = mem
    /\ Goto("LoadQuestions")
    /\ UNCHANGED <<clock, last, found>>

\* Step 3
ReloadCorpus ==
    /\ pc = "ReloadCorpus"
    /\ LET r == load_artifacts(files["artifacts"]) IN
       /\ files' = [files EXCEPT !["artifacts"] = r.file]
       /\ IF r.raised THEN Raise("ReloadCorpus")
          ELSE mem' = [mem EXCEPT !.artifacts = r.ret] /\ Goto("LoadQuestions")
    /\ UNCHANGED <<clock, last, found>>

\* Step 4, up to the call of analyze_corpus
LoadQuestions ==
    /\ pc = "LoadQuestions"
    /\ LET entry_id == make_id("R", clock)
           r == load_research_questions(files["research_questions"])
       IN
       /\ files' = [files EXCEPT !["research_questions"] = r.file]
       /\ IF r.raised
          THEN /\ pc' = "raised"
               /\ mem' = [mem EXCEPT !.entry_id = entry_id, !.failed = "LoadQuestions"]
               /\ pre' = pre
          ELSE /\ mem' = [mem EXCEPT !.entry_id = entry_id, !.existing_questions = r.ret]
               /\ Goto("Analyze")
    /\ UNCHANGED <<clock, last, found>>

\* Step 4, analyze_corpus
Analyze ==
    /\ pc = "Analyze"
    /\ \E served \in BOOLEAN :
         \E qraw \in IF served THEN QuestionResponses(mem.existing_questions) ELSE {NotJson},
            graw \in IF served THEN GlossResponses(mem.artifacts) ELSE {NotJson} :
           LET r == analyze_corpus(mem.entry_id, mem.artifacts, mem.existing_questions,
                                   served, "summary", qraw, graw)
           IN
           IF r.raised
           THEN /\ pc' = "raised"
                /\ mem' = [mem EXCEPT !.qraw = IF served THEN qraw ELSE mem.qraw,
                                      !.graw = IF served THEN graw ELSE mem.graw,
                                      !.failed = "Analyze"]
                /\ pre' = pre
           ELSE /\ mem' = [mem EXCEPT !.qraw = qraw, !.graw = graw,
                                      !.existing_questions = r.existing,
                                      !.note = r.note,
                                      !.new_questions = r.new_questions,
                                      !.updated_questions = r.updated_questions,
                                      !.glosses = r.glosses]
                /\ pc' = "PersistGlossUpdates"
                /\ pre' = files
    /\ UNCHANGED <<files, clock, last, found>>

\* Step 5
PersistGlossUpdates ==
    /\ pc = "PersistGlossUpdates"
    /\ IF Len(mem.glosses) = 0
       THEN /\ files' = files /\ mem' = mem /\ Goto("ContextAnalyze")
       ELSE LET r == update_artifact_glosses(files["artifacts"], mem.glosses, NowSec) IN
            /\ files' = [files EXCEPT !["artifacts"] = r.file]
            /\ IF r.raised THEN Raise("PersistGlossUpdates")
               ELSE /\ mem' = [mem EXCEPT !.artifacts = load_artifacts(r.file).ret]
                    /\ Goto("ContextAnalyze")
    /\ UNCHANGED <<clock, last, found>>

\* a wrong Step 6: the analysis appends its note to the log itself
ContextAnalyze_writes ==
    /\ pc = "ContextAnalyze"
    /\ \E served \in BOOLEAN :
         LET context_entry_id == make_id("C", clock)
             r == analyze_contextual_fit(context_entry_id, mem.artifacts, served, "critique")
         IN
         IF r.raised
         THEN /\ pc' = "raised"
              /\ mem' = [mem EXCEPT !.context_entry_id = context_entry_id,
                                    !.failed = "ContextAnalyze"]
              /\ pre' = pre
              /\ files' = files
         ELSE /\ mem' = [mem EXCEPT !.context_entry_id = context_entry_id,
                                    !.context_note = r.note]
              /\ pc' = "PersistNote"
              /\ files' = [files EXCEPT !["research_log"] =
                              append_research_log(files["research_log"], r.note).file]
              /\ pre' = files'
    /\ UNCHANGED <<clock, last, found>>

\* Step 6
ContextAnalyze ==
    /\ pc = "ContextAnalyze"
    /\ \E served \in BOOLEAN :
         LET context_entry_id == make_id("C", clock)
             r == analyze_contextual_fit(context_entry_id, mem.artifacts, served, "critique")
         IN
         IF r.raised
         THEN /\ pc' = "raised"
              /\ mem' = [mem EXCEPT !.context_entry_id = context_entry_id,
                                    !.failed = "ContextAnalyze"]
              /\ pre' = pre
         ELSE /\ mem' = [mem EXCEPT !.context_entry_id = context_entry_id,
                                    !.context_note = r.note]
              /\ pc' = "PersistNote"
              /\ pre' = files
    /\ UNCHANGED <<files, clock, last, found>>

\* Step 7
PersistNote ==
    /\ pc = "PersistNote"
    /\ LET r1 == append_research_log(files["research_log"], mem.note)
           r2 == append_research_log(r1.file, mem.context_note)
       IN
       IF r1.raised
       THEN files' = [files EXCEPT !["research_log"] = r1.file] /\ Raise("PersistNote")
       ELSE /\ files' = [files EXCEPT !["research_log"] = r2.file]
            /\ IF r2.raised THEN Raise("PersistNote")
               ELSE mem' = mem /\ Goto("PersistNewQuestions")
    /\ UNCHANGED <<clock, last, found>>

\* Step 8: one turn of the loop over new_questions, or its end
PersistNewQuestions ==
    /\ pc = "PersistNewQuestions"
    /\ IF Len(mem.new_questions) = 0
       THEN /\ files' = files /\ mem' = mem /\ Goto("PersistQuestionUpdates")
       ELSE
         LET item == mem.new_questions[mem.i + 1] IN
         \* q["research_note_id"] = entry_id on what is no dict
         IF ~item.isdict
         THEN files' = files /\ Raise("PersistNewQuestions")
         ELSE
           LET q == Put(Put(Put(item.d, "research_note_id", mem.entry_id),
                            "id", make_id("Q", clock)),
                        "created_at", NowSec)
               r == append_research_question(files["research_questions"], q)
           IN
           /\ files' = [files EXCEPT !["research_questions"] = r.file]
           /\ IF r.raised THEN Raise("PersistNewQuestions")
              ELSE IF mem.i + 1 = Len(mem.new_questions)
              THEN /\ mem' = [mem EXCEPT !.i = mem.i + 1,
                                         !.new_questions[mem.i + 1] = Obj(q)]
                   /\ Goto("PersistQuestionUpdates")
              ELSE /\ mem' = [mem EXCEPT !.i = mem.i + 1,
                                         !.new_questions[mem.i + 1] = Obj(q)]
                   /\ pc' = pc /\ pre' = pre
    /\ UNCHANGED <<clock, last, found>>

\* a wrong Step 9: the questions loaded before the analysis are written back
PersistQuestionUpdates_stale ==
    /\ pc = "PersistQuestionUpdates"
    /\ IF Len(mem.updated_questions) = 0
       THEN /\ files' = files /\ mem' = mem /\ pc' = "done" /\ pre' = pre
       ELSE LET r == write_json_list(files["research_questions"],
                                     mem.existing_questions) IN
            /\ files' = [files EXCEPT !["research_questions"] = r.file]
            /\ IF r.raised THEN Raise("PersistQuestionUpdates")
               ELSE mem' = mem /\ pc' = "done" /\ pre' = pre
    /\ UNCHANGED <<clock, last, found>>

\* a wrong Step 9: a cycle without any question is given up
PersistQuestionUpdates_strict ==
    /\ pc = "PersistQuestionUpdates"
    /\ IF Len(mem.updated_questions) = 0
       THEN /\ files' = files
            /\ IF Len(mem.new_questions) = 0 THEN Raise("PersistQuestionUpdates")
               ELSE mem' = mem /\ pc' = "done" /\ pre' = pre
       ELSE LET r == update_research_questions(files["research_questions"],
                                               mem.updated_questions, NowSec) IN
            /\ files' = [files EXCEPT !["research_questions"] = r.file]
            /\ IF r.raised THEN Raise("PersistQuestionUpdates")
               ELSE mem' = mem /\ pc' = "done" /\ pre' = pre
    /\ UNCHANGED <<clock, last, found>>

\* Step 9
PersistQuestionUpdates ==
    /\ pc = "PersistQuestionUpdates"
    /\ IF Len(mem.updated_questions) = 0
       THEN /\ files' = files /\ mem' = mem /\ pc' = "done" /\ pre' = pre
       ELSE LET r == update_research_questions(files["research_questions"],
                                               mem.updated_questions, NowSec) IN
            /\ files' = [files EXCEPT !["research_questions"] = r.file]
            /\ IF r.raised THEN Raise("PersistQuestionUpdates")
               ELSE mem' = mem /\ pc' = "done" /\ pre' = pre
    /\ UNCHANGED <<clock, last, found>>

\* main() with --speaker COUNT
StartSpeaker ==
    /\ pc = "idle"
    /\ \E count \in 1..MaxSpeakerCount :
         mem' = [NoMem EXCEPT !.mode = "speaker", !.count = count]
    /\ pc' = "SpeakerRun"
    /\ pre' = files
    /\ UNCHANGED <<files, clock, last, found>>

\* one turn of the loop of run_speaker_only
SpeakerRun ==
    /\ pc = "SpeakerRun"
    /\ \E o \in SpeakerOutcomes, context \in Contexts :
         \E word \in AllWords(o.raw) :
           LET artifact_id == make_id("A", clock)
               new_artifacts == generate_artifact(language, artifact_id,
                                    max_speaker_words, o.raw, context, word)
               r == AddAll(files["artifacts"], new_artifacts, 1)
           IN
           IF o.how = "protocol"
           THEN /\ files' = files
                /\ pc' = "raised"
                /\ mem' = [mem EXCEPT !.artifact_id = artifact_id, !.speaker = o.how,
                                      !.failed = "SpeakerRun"]
                /\ pre' = pre
           ELSE /\ files' = [files EXCEPT !["artifacts"] = r.file]
                /\ IF r.raised
                   THEN /\ pc' = "raised"
                        /\ mem' = [mem EXCEPT !.artifact_id = artifact_id,
                                              !.speaker = o.how, !.failed = "SpeakerRun"]
                        /\ pre' = pre
                   ELSE /\ mem' = [mem EXCEPT !.artifact_id = artifact_id,
                                              !.speaker = o.how,
                                              !.new_artifacts = new_artifacts,
                                              !.run = mem.run + 1]
                        /\ pc' = IF mem.run + 1 = mem.count THEN "done" ELSE pc
                        /\ pre' = IF mem.run + 1 = mem.count THEN pre ELSE files'
    /\ UNCHANGED <<clock, last, found>>

\* the steps that read the clock next
ReadsClock ==
    pc \in {"Generate", "LoadQuestions", "PersistGlossUpdates", "ContextAnalyze",
            "PersistNewQuestions", "PersistQuestionUpdates", "SpeakerRun"}

Tick ==
    /\ ReadsClock
    /\ Ticks(clock) < MaxTicks
    /\ \E t \in Advance(clock) : clock' = t
    /\ UNCHANGED <<files, last, cycleVars>>

\* a question as Step 8 of an earlier cycle stored it
EarlierQuestion ==
    [question |-> "q0", proposed_answer |-> "", confidence |-> "low",
     research_note_id |-> make_id("R", 0), id |-> make_id("Q", 0), created_at |-> 0]

\* a question an earlier cycle stored and a later one answered
AnsweredQuestion ==
    [question |-> "qh", proposed_answer |-> "ans", confidence |-> "high",
     research_note_id |-> make_id("R", 0), id |-> make_id("Q", 1), created_at |-> 0,
     updated_at |-> 0]

\* the question stores earlier cycles may have left
EarlierQuestions ==
    { append_research_question(Missing, EarlierQuestion).file,
      append_research_question(
          append_research_question(Missing, AnsweredQuestion).file,
          EarlierQuestion).file }

\* the artifacts of an earlier cycle, the inscription glossed with confidence
EarlierArtifacts(confidence) ==
    LET artifact_id == make_id("A", 0)
        arts == generate_artifact(language, artifact_id, max_speaker_words,
                                  <<"Kar", "mel">>, "boundary marker inscription", "Kar")
        gloss == Obj([artifact_id |-> artifact_id, gloss |-> "water",
                      confidence |-> confidence])
    IN update_artifact_glosses(AddAll(Missing, arts, 1).file, <<gloss>>, 0).file

\* the note of an earlier cycle
EarlierLog ==
    append_research_log(Missing,
        [id |-> make_id("R", 0), type |-> "research_note", summary |-> "summary",
         metadata |-> [artifact_count |-> 2, languages_seen |-> {language}]]).file

\* the documents a run of the program may find: none, one that is no JSON, or
\* those that earlier cycles left
CycleStartFiles ==
    LET fresh == [p \in Paths |-> Missing] IN
    {fresh}
        \cup {[fresh EXCEPT ![p] = Malformed] : p \in Paths}
        \cup {[artifacts |-> EarlierArtifacts(c), research_log |-> EarlierLog,
               research_questions |-> q] :
                 c \in {"medium", "low"}, q \in EarlierQuestions}

CycleInit ==
    /\ files \in CycleStartFiles
    /\ clock = StartMs
    /\ last = NoCall
    /\ pc = "idle"
    /\ mem = NoMem
    /\ pre = files
    /\ found = files

CycleNext ==
    \/ StartCycle
    \/ LoadCorpus
    \/ Generate
    \/ PersistArtifacts
    \/ ReloadCorpus
    \/ LoadQuestions
    \/ Analyze
    \/ PersistGlossUpdates
    \/ ContextAnalyze
    \/ PersistNote
    \/ PersistNewQuestions
    \/ PersistQuestionUpdates
    \/ StartSpeaker
    \/ SpeakerRun
    \/ Tick

CycleSpec == CycleInit /\ [][CycleNext]_vars

(***************************************************************************)
(* Direct calls of the researcher's functions that compute from a corpus   *)
(* or from the questions in memory and ask the service nothing.            *)
(***************************************************************************)
MaxArtifacts == 24      \* longest patterned corpus

\* corpora short enough to list, of two languages
StatArtifacts ==
    { [id |-> "A1", language |-> "a", type |-> "inscription", text |-> <<"Kar">>],
      [id |-> "A1_S", language |-> "a", type |-> "sentence", text |-> <<"Kar", "mel">>],
      [id |-> "A2_S", language |-> "b", type |-> "sentence", text |-> <<"mel", "mel">>],
      [id |-> "A3", language |-> "b", type |-> "inscription",
       text |-> <<"mel", "Kar", "mel">>],
      [id |-> "A4"] }

\* record number i of a long corpus, as the speaker and Step 5 leave records
Inscription(i, gloss, confidence) ==
    [id |-> make_id("A", i), language |-> language, type |-> "inscription",
     text |-> <<"kar">>,
     metadata |-> [context |-> "boundary marker inscription", gloss |-> gloss,
                   meaning |-> "", confidence |-> confidence,
                   gloss_updated_at |-> IF gloss = "" THEN NoneTs ELSE 0]]

Sentence(i) ==
    [id |-> make_id("A", i) \o "_S", language |-> language, type |-> "sentence",
     text |-> <<"kar", "mel">>, metadata |-> NewMetadata("boundary marker inscription")]

CorpusPatterns == {"fresh", "pairs", "settled", "low", "old"}

PatternedCorpus(pattern, n) ==
    [i \in 1..n |->
        CASE pattern = "fresh" -> Inscription(i, "", "")
          [] pattern = "pairs" -> IF i % 2 = 1 THEN Inscription(i, "", "") ELSE Sentence(i - 1)
          [] pattern = "settled" -> IF i % 3 = 0 THEN Inscription(i, "water", "medium")
                                    ELSE Inscription(i, "", "")
          [] pattern = "low" -> Inscription(i, "water", "low")
          [] OTHER -> IF i <= 3 THEN Inscription(i, "", "")
                      ELSE Inscription(i, "water", "high")]

\* questions as the stores may hold them
ReviewQuestions ==
    { [id |-> "Q1", question |-> "q1", proposed_answer |-> "", confidence |-> "low"],
      [id |-> "Q2", question |-> "q2", proposed_answer |-> "ans", confidence |-> "high"],
      [id |-> "Q3", question |-> "q3", proposed_answer |-> "ans", confidence |-> "medium"],
      [id |-> "Q4", question |-> "q4", proposed_answer |-> "ans"],
      [id |-> "Q5", question |-> "q5", proposed_answer |-> " ", confidence |-> "high"],
      [id |-> "Q6", question |-> "q6", proposed_answer |-> "ans", confidence |-> "Low"],
      [id |-> "Q7", question |-> "q7"],
      [id |-> "Q8", question |-> "q8", proposed_answer |-> "ans", confidence |-> "med"] }

NoResearch ==
    [op |-> "none", artifacts |-> <<>>, existing_questions |-> <<>>, ret |-> <<>>]

ResearchInit ==
    /\ files = [p \in Paths |-> Missing]
    /\ clock = StartMs
    /\ \/ \E artifacts \in SeqsUpTo(StatArtifacts, MaxCorpus) :
             last = [NoResearch EXCEPT !.artifacts = artifacts]
       \/ \E pattern \in CorpusPatterns, n \in 1..MaxArtifacts :
             last = [NoResearch EXCEPT !.artifacts = PatternedCorpus(pattern, n)]
       \/ \E questions \in SeqsUpTo(ReviewQuestions, MaxCorpus) :
             last = [NoResearch EXCEPT !.existing_questions = questions]
    /\ pc = "idle"
    /\ mem = NoMem
    /\ pre = files
    /\ found = files

CallExtractTokens ==
    /\ last.op = "none"
    /\ LET per_lang_tokens == _extract_tokens_from_artifacts(last.artifacts) IN
       last' = [last EXCEPT !.op = "tokens",
                   !.ret = [per_lang_tokens |-> per_lang_tokens,
                            lang_summaries |-> LangSummaries(per_lang_tokens)]]
    /\ UNCHANGED <<files, clock, cycleVars>>

CallGlossCandidates ==
    /\ last.op = "none"
    /\ last' = [last EXCEPT !.op = "candidates", !.ret = GlossCandidates(last.artifacts)]
    /\ UNCHANGED <<files, clock, cycleVars>>

CallQuestionsToReview ==
    /\ last.op = "none"
    /\ last' = [last EXCEPT !.op = "review",
                            !.ret = questions_to_review(last.existing_questions)]
    /\ UNCHANGED <<files, clock, cycleVars>>

ResearchNext ==
    \/ CallExtractTokens
    \/ CallGlossCandidates
    \/ CallQuestionsToReview

ResearchSpec == ResearchInit /\ [][ResearchNext]_vars

(***************************************************************************)
(* Claims about the store, over the last direct call.                      *)
(***************************************************************************)
Readable(f) == f.kind \in {"missing", "list"}

AllRecords(f) ==
    \/ f.kind = "missing"
    \/ f.kind = "list" /\ \A i \in 1..Len(f.items) : f.items[i].isdict

\* what a load of the document returns
Loaded(f) == load_json_list(f).ret

PreRecords == Loaded(last.pre)

PostRecords == Loaded(files[last.path])

\* C1: after an append to a store whose entries are all records, a load returns
\* the previous contents, in order, followed by the appended record
C1_AppendThenLoad ==
    (last.op = "append" /\ AllRecords(last.pre))
        => /\ ~last.raised
           /\ ~load_json_list(files[last.path]).raised
           /\ Len(PostRecords) = Len(PreRecords) + 1
           /\ PostRecords[Len(PostRecords)] = last.rec
           /\ SubSeq(PostRecords, 1, Len(PreRecords)) = PreRecords

C1_Witness ==
    /\ last.op = "append"
    /\ last.pre.kind = "list" /\ AllRecords(last.pre) /\ Len(last.pre.items) >= 1
    /\ ~last.raised

\* C2: a load of a missing document creates it as an empty list and returns the
\* empty sequence; a load of the document so created returns the empty sequence
\* and leaves it as it is
C2_LoadMissingCreatesEmpty ==
    /\ (last.op = "load" /\ last.pre = Missing)
          => /\ ~last.raised
             /\ last.ret = <<>>
             /\ files[last.path] = ListFile(<<>>)
    /\ (last.op = "load" /\ last.pre = ListFile(<<>>))
          => /\ ~last.raised
             /\ last.ret = <<>>
             /\ files[last.path] = last.pre

C2_Witness ==
    /\ last.op = "load" /\ last.pre = ListFile(<<>>)
    /\ files[last.path] = ListFile(<<>>)

\* C3: a load, an append or an update of a document that is malformed JSON or
\* whose top level is not a list raises, returns nothing and leaves the document
\* as it was
C3_CorruptStoreRaises ==
    (last.op \in {"load", "append", "update"} /\ ~Readable(last.pre))
        => /\ last.raised
           /\ last.ret = <<>>
           /\ last.count = 0
           /\ files[last.path] = last.pre

C3_Witness ==
    /\ last.op = "update" /\ last.pre = NonList /\ last.raised
    /\ Len(last.updates) > 0

\* the field of an update that names the record it is for
IdField == IF last.path = "artifacts" THEN "artifact_id" ELSE "id"

UpdateMatches(u, r) ==
    HasKey(u, IdField) /\ HasKey(r, "id") /\ r.id = u[IdField]

MatchedRecords ==
    {i \in 1..Len(PreRecords) :
        \E j \in 1..Len(last.updates) : UpdateMatches(last.updates[j], PreRecords[i])}

MatchingUpdates ==
    {j \in 1..Len(last.updates) :
        \E i \in 1..Len(PreRecords) : UpdateMatches(last.updates[j], PreRecords[i])}

\* C4: an update in which every update names an id and no id is that of a stored
\* record returns 0 and leaves the records, their number and their order as
\* they were
C4_NoMatchChangesNothing ==
    (/\ last.op = "update" /\ Readable(last.pre)
     /\ \A j \in 1..Len(last.updates) : HasKey(last.updates[j], IdField)
     /\ MatchingUpdates = {})
        => /\ ~last.raised
           /\ last.count = 0
           /\ PostRecords = PreRecords
           /\ (last.pre.kind = "list" /\ AllRecords(last.pre)
                  => files[last.path] = last.pre)

C4_Witness ==
    /\ last.op = "update" /\ last.pre.kind = "list"
    /\ Len(PreRecords) >= 1 /\ HasKey(PreRecords[1], "id")
    /\ Len(last.updates) >= 1
    /\ \A j \in 1..Len(last.updates) : HasKey(last.updates[j], IdField)
    /\ MatchingUpdates = {}
    /\ ~last.raised

MutableFields == {"proposed_answer", "confidence", "updated_at"}

MutableMetadata == {"gloss", "confidence", "gloss_updated_at"}

\* the two dicts have the same keys and values outside the keys in except
SameOutside(r1, r2, except) ==
    /\ (DOMAIN r1) \ except = (DOMAIN r2) \ except
    /\ \A k \in (DOMAIN r1) \ except : r1[k] = r2[k]

OnlyMutableChanged(r1, r2) ==
    IF last.path = "artifacts"
    THEN /\ SameOutside(r1, r2, {"metadata"})
         /\ HasKey(r2, "metadata")
         /\ SameOutside(Get(r1, "metadata", EmptyDict), r2.metadata, MutableMetadata)
    ELSE SameOutside(r1, r2, MutableFields)

FrameOfUpdate ==
    /\ Len(PostRecords) = Len(PreRecords)
    /\ \A i \in 1..Len(PreRecords) :
          IF i \in MatchedRecords
          THEN OnlyMutableChanged(PreRecords[i], PostRecords[i])
          ELSE PostRecords[i] = PreRecords[i]

\* C5 as stated: the update returns M, the number of the updates whose id is the
\* id of a stored record
C5_ReturnsMatchingUpdates ==
    (last.op = "update" /\ Readable(last.pre) /\ ~last.raised)
        => /\ last.count = Cardinality(MatchingUpdates)
           /\ FrameOfUpdate

\* C5 amended: an update that returns, returns the number of stored records whose
\* id is the id of some update; each of these differs from its previous value
\* only in the mutable fields, and every other record, the length and the order
\* are unchanged
C5_ReturnsMatchedRecords ==
    (last.op = "update" /\ Readable(last.pre) /\ ~last.raised)
        => /\ last.count = Cardinality(MatchedRecords)
           /\ FrameOfUpdate

C5_Witness ==
    /\ last.op = "update" /\ ~last.raised
    /\ Len(last.updates) = 2
    /\ Cardinality(MatchingUpdates) = 1
    /\ Len(PreRecords) = 2
    /\ Cardinality(MatchedRecords) = 1
    /\ PostRecords # PreRecords

(***************************************************************************)
(* Claims about the full cycle.                                            *)
(***************************************************************************)
\* the records of a store, if the document can be read
Stored(p) == IF Readable(files[p]) THEN Loaded(files[p]) ELSE <<>>

\* the two documents hold the same collection
SameCollection(f, g) ==
    IF Readable(f) /\ Readable(g) THEN Loaded(f) = Loaded(g) ELSE f = g

\* C6: a stored question that has never been updated has confidence "low" and an
\* empty proposed answer, whatever the service returned for it
C6_NewQuestionsStartLow ==
    \A i \in 1..Len(Stored("research_questions")) :
        LET q == Stored("research_questions")[i] IN
        ~HasKey(q, "updated_at")
            => /\ Get(q, "confidence", "low") = "low"
               /\ Get(q, "proposed_answer", "") = ""

\* C7: when the call of the Generate step ends in a connection failure or a
\* timeout, the cycle does not run to its end and the artifact store holds no
\* artifact made from that call
C7_FailedGenerationAddsNothing ==
    (mem.mode = "cycle" /\ mem.speaker = "unavailable")
        => /\ pc # "done"
           /\ \A i \in 1..Len(Stored("artifacts")) :
                 Get(Stored("artifacts")[i], "id", "")
                     \notin {mem.artifact_id, mem.artifact_id \o "_S"}

\* C8: when a step raises, every collection is as it was when the step began:
\* the step has persisted nothing, and what earlier steps wrote is still there
C8_NoPartialPersistence ==
    pc = "raised" => \A p \in Paths : SameCollection(files[p], pre[p])

\* the answer is not JSON, or not of the shape asked for, down to its elements
AllDicts(v) == v.json = "list" /\ \A k \in 1..Len(v.items) : v.items[k].isdict

\* the part of the answer under key is missing the shape asked for
MalformedPart(raw, key) ==
    \/ raw.json # "dict"
    \/ raw.json = "dict" /\ ~AllDicts(Get(raw.d, key, JList(<<>>)))

MalformedQuestions(raw) ==
    MalformedPart(raw, "answers") \/ MalformedPart(raw, "new_questions")

MalformedGlosses(raw) == ~AllDicts(raw)

Answered == mem.qraw.json # "none"

\* C9: an answer of the service that is not JSON or is of the wrong shape never
\* makes the parsing or the steps that use its result raise, and yields no
\* proposals
C9_MalformedAnswerYieldsNothing ==
    /\ (Answered /\ MalformedQuestions(mem.qraw))
          => ~(pc = "raised" /\ mem.failed \in {"Analyze", "PersistNewQuestions"})
    /\ (Answered /\ MalformedGlosses(mem.graw))
          => ~(pc = "raised" /\ mem.failed = "PersistGlossUpdates")
    /\ (Answered /\ MalformedPart(mem.qraw, "new_questions") /\ pc # "raised")
          => mem.new_questions = <<>>
    /\ (Answered /\ MalformedPart(mem.qraw, "answers") /\ pc # "raised")
          => mem.updated_questions = <<>>
    /\ (Answered /\ MalformedGlosses(mem.graw) /\ pc # "raised")
          => mem.glosses = <<>>

\* C10: proposals that lack some of their fields are persisted with defaults:
\* a gloss update made of dicts that name their artifact never raises, and a
\* stored question has a confidence and a proposed answer
C10_MissingFieldsGetDefaults ==
    /\ (pc = "raised" /\ mem.failed = "PersistGlossUpdates")
          => \E k \in 1..Len(mem.glosses) :
                ~mem.glosses[k].isdict \/ ~HasKey(mem.glosses[k].d, "artifact_id")
    /\ \A i \in 1..Len(Stored("research_questions")) :
          /\ HasKey(Stored("research_questions")[i], "confidence")
          /\ HasKey(Stored("research_questions")[i], "proposed_answer")

\* C11: no two records of the artifact store have the same id
C11_ArtifactIdsNeverReused ==
    \A i, j \in 1..Len(Stored("artifacts")) :
        (/\ i # j
         /\ HasKey(Stored("artifacts")[i], "id")
         /\ HasKey(Stored("artifacts")[j], "id"))
            => Stored("artifacts")[i].id # Stored("artifacts")[j].id

\* C12: a stored artifact whose metadata gloss is not empty has confidence low,
\* medium or high
C12_GlossImpliesConfidence ==
    \A i \in 1..Len(Stored("artifacts")) :
        LET metadata == Get(Stored("artifacts")[i], "metadata", EmptyDict) IN
        Get(metadata, "gloss", "") # ""
            => Get(metadata, "confidence", "none") \in {"low", "medium", "high"}

\* the records of a document, if it can be read
StoredIn(f) == IF Readable(f) THEN Loaded(f) ELSE <<>>

MutableArtifactMetadata == {"gloss", "meaning", "confidence", "gloss_updated_at"}

\* b is a with at most its mutable metadata changed
ArtifactKept(a, b) ==
    /\ SameOutside(a, b, {"metadata"})
    /\ SameOutside(Get(a, "metadata", EmptyDict), Get(b, "metadata", EmptyDict),
                   MutableArtifactMetadata)

\* C13: no step deletes or reorders a stored artifact or changes its id,
\* language, type, text or metadata context
C13_ArtifactsKept ==
    [][\/ files'["artifacts"] = files["artifacts"]
       \/ LET old == StoredIn(files["artifacts"])
              new == StoredIn(files'["artifacts"])
          IN /\ Len(new) >= Len(old)
             /\ \A i \in 1..Len(old) : ArtifactKept(old[i], new[i])]_vars

\* an artifact of an earlier cycle has been glossed anew and the new ones follow
C13_Witness ==
    /\ pc = "done" /\ mem.mode = "cycle"
    /\ Len(StoredIn(found["artifacts"])) = 2
    /\ Len(Stored("artifacts")) = 4
    /\ Stored("artifacts")[1] # StoredIn(found["artifacts"])[1]

\* the last call updated the question store and returned
QuestionsUpdated ==
    /\ last.op = "update" /\ last.path = "research_questions"
    /\ Readable(last.pre) /\ ~last.raised

\* the update that was applied to the stored question r
UpdateFor(r) == last.updates[LastIndexWith(last.updates, "id", r.id)]

\* field k of the question is in r2 as it was in r1
FieldKept(r1, r2, k) ==
    /\ HasKey(r2, k) <=> HasKey(r1, k)
    /\ HasKey(r1, k) => r2[k] = r1[k]

\* C14 as stated: an update keeps every question with its id and question text,
\* changes only proposed_answer, confidence and updated_at, and changes a
\* question only by an update that carries both proposed_answer and confidence
C14_UpdatedTogether ==
    QuestionsUpdated
        => /\ Len(PostRecords) = Len(PreRecords)
           /\ \A i \in 1..Len(PreRecords) :
                 /\ SameOutside(PreRecords[i], PostRecords[i], MutableFields)
                 /\ PostRecords[i] # PreRecords[i]
                       => /\ HasKey(UpdateFor(PreRecords[i]), "proposed_answer")
                          /\ HasKey(UpdateFor(PreRecords[i]), "confidence")

\* C14 amended: an update keeps every question with its id and question text
\* and changes only proposed_answer, confidence and updated_at of the matched
\* ones; updated_at is always written, proposed_answer and confidence each only
\* when the update carries it
C14_UpdateWritesWhatItCarries ==
    QuestionsUpdated
        => /\ Len(PostRecords) = Len(PreRecords)
           /\ \A i \in 1..Len(PreRecords) :
                 IF i \in MatchedRecords
                 THEN /\ SameOutside(PreRecords[i], PostRecords[i], MutableFields)
                      /\ HasKey(PostRecords[i], "updated_at")
                      /\ \A k \in {"proposed_answer", "confidence"} :
                            IF HasKey(UpdateFor(PreRecords[i]), k)
                            THEN /\ HasKey(PostRecords[i], k)
                                 /\ PostRecords[i][k] = UpdateFor(PreRecords[i])[k]
                            ELSE FieldKept(PreRecords[i], PostRecords[i], k)
                 ELSE PostRecords[i] = PreRecords[i]

\* a stored question has been updated by an update that carries a confidence
\* and no proposed_answer
C14_Witness ==
    /\ QuestionsUpdated
    /\ \E i \in MatchedRecords :
          /\ HasKey(UpdateFor(PreRecords[i]), "confidence")
          /\ ~HasKey(UpdateFor(PreRecords[i]), "proposed_answer")
          /\ PostRecords[i].confidence = UpdateFor(PreRecords[i]).confidence

IsPrefix(a, b) == Len(a) <= Len(b) /\ SubSeq(b, 1, Len(a)) = a

\* C15: over every step the research log before the step is a prefix of the log
\* after it
C15_LogAppendOnly ==
    [][IsPrefix(StoredIn(files["research_log"]), StoredIn(files'["research_log"]))]_vars

\* a cycle has added its two notes after the note of an earlier cycle
C15_Witness ==
    /\ pc \in {"PersistNewQuestions", "PersistQuestionUpdates", "done"}
    /\ Len(StoredIn(found["research_log"])) = 1
    /\ Len(Stored("research_log")) = 3
    /\ Stored("research_log")[1] = StoredIn(found["research_log"])[1]
    /\ Stored("research_log")[2] = mem.note

\* the steps of a full cycle in the order of the claim; the analysis begins with
\* the load of the questions, and the context analysis follows the gloss updates
StepOrder ==
    <<"LoadCorpus", "Generate", "PersistArtifacts", "ReloadCorpus", "LoadQuestions",
      "Analyze", "PersistGlossUpdates", "ContextAnalyze", "PersistNote",
      "PersistNewQuestions", "PersistQuestionUpdates", "done">>

StepNo(step) == CHOOSE k \in 1..Len(StepOrder) : StepOrder[k] = step

\* the records of the store p differ between the two states of the step
Written(p) == StoredIn(files[p]) # StoredIn(files'[p])

\* C16: a full cycle goes through its steps in the one order, none left out or
\* taken twice; artifacts are appended by the artifact persistence only, glosses
\* written by the gloss update only, the log by the note persistence only, the
\* questions by the two question steps only
C16_StepsInOrder ==
    [][(mem'.mode = "cycle" /\ pc' # "raised")
          => /\ pc = "idle" => pc' = "LoadCorpus"
             /\ (pc # "idle" /\ pc' # pc) => StepNo(pc') = StepNo(pc) + 1
             /\ pc' = pc => pc = "PersistNewQuestions" \/ clock' # clock
             /\ Len(StoredIn(files'["artifacts"])) # Len(StoredIn(files["artifacts"]))
                   => pc = "PersistArtifacts"
             /\ Written("artifacts") => pc \in {"PersistArtifacts", "PersistGlossUpdates"}
             /\ Written("research_log") => pc = "PersistNote"
             /\ Written("research_questions")
                   => pc \in {"PersistNewQuestions", "PersistQuestionUpdates"}]_vars

\* a cycle has ended that wrote artifacts, a gloss, its notes, a new question
\* and a question update
C16_Witness ==
    /\ pc = "done" /\ mem.mode = "cycle"
    /\ Len(mem.glosses) > 0
    /\ Len(mem.new_questions) > 0
    /\ Len(mem.updated_questions) > 0
    /\ Stored("artifacts") # StoredIn(found["artifacts"])
    /\ Len(Stored("research_log")) = Len(StoredIn(found["research_log"])) + 2
    /\ Len(Stored("research_questions")) > Len(StoredIn(found["research_questions"]))

\* C17: the corpus the analysis of a full cycle is given is the artifact store
\* as it stands, and its last elements are the artifacts this cycle persisted
C17_AnalysisSeesNewArtifacts ==
    (mem.mode = "cycle" /\ pc = "Analyze")
        => /\ mem.artifacts = Stored("artifacts")
           /\ Len(mem.new_artifacts) >= 1
           /\ LastN(mem.artifacts, Len(mem.new_artifacts)) = mem.new_artifacts
           /\ mem.artifacts = StoredIn(found["artifacts"]) \o mem.new_artifacts
           /\ mem.new_artifacts[1].id = mem.artifact_id

\* the analysis is about to be given the artifacts of an earlier cycle and,
\* after them, those of this one
C17_Witness ==
    /\ mem.mode = "cycle" /\ pc = "Analyze"
    /\ Len(StoredIn(found["artifacts"])) = 2
    /\ Len(mem.artifacts) = 4
    /\ mem.artifacts[3].id = mem.artifact_id

\* the answer of the service proposes an update for the question id
ProposesUpdateFor(raw, id) ==
    /\ raw.json = "dict"
    /\ LET answers == Get(raw.d, "answers", JList(<<>>)) IN
       /\ answers.json = "list"
       /\ \E k \in 1..Len(answers.items) :
             /\ answers.items[k].isdict
             /\ Get(answers.items[k].d, "question_id", "") = id

\* a question with confidence high and an answer
Settled(q) ==
    /\ HasKey(q, "id")
    /\ Get(q, "confidence", "") = "high"
    /\ Get(q, "proposed_answer", "") # ""

\* C18: no step of a full cycle changes a stored question that has confidence
\* high and an answer, unless the service proposed an update for its id
C18_SettledQuestionUntouched ==
    [][mem'.mode = "cycle"
          => LET old == StoredIn(files["research_questions"])
                 new == StoredIn(files'["research_questions"])
             IN \A i \in 1..Len(old) :
                   (Settled(old[i]) /\ ~ProposesUpdateFor(mem.qraw, old[i].id))
                       => Len(new) >= i /\ new[i] = old[i]]_vars

\* a cycle has ended that updated another question and appended a new one, and
\* the settled question of an earlier cycle is as it was found
C18_Witness ==
    /\ pc = "done" /\ mem.mode = "cycle"
    /\ Len(StoredIn(found["research_questions"])) = 2
    /\ Settled(StoredIn(found["research_questions"])[1])
    /\ ~ProposesUpdateFor(mem.qraw, StoredIn(found["research_questions"])[1].id)
    /\ Len(mem.updated_questions) = 1
    /\ Len(Stored("research_questions")) = 3
    /\ HasKey(Stored("research_questions")[2], "updated_at")
    /\ Stored("research_questions")[1] = StoredIn(found["research_questions"])[1]

\* C19: a full cycle that finds the artifact store and the question store
\* empty (or absent) and runs to its end leaves at least one record in the
\* artifact store, every record there of type inscription or sentence, and
\* at least one new record of type research_note in the research log.
EmptyStore(f) == Readable(f) /\ StoredIn(f) = <<>>

NewIn(p) ==
    LET old == StoredIn(found[p])
        new == Stored(p)
    IN IF Len(new) > Len(old) THEN SubSeq(new, Len(old) + 1, Len(new)) ELSE <<>>

C19_FullCycleLeavesRecords ==
    (/\ pc = "done" /\ mem.mode = "cycle"
     /\ EmptyStore(found["artifacts"])
     /\ EmptyStore(found["research_questions"]))
        => /\ Readable(files["artifacts"]) /\ Readable(files["research_log"])
           /\ Len(NewIn("artifacts")) >= 1
           /\ \A i \in 1..Len(NewIn("artifacts")) :
                 /\ HasKey(NewIn("artifacts")[i], "type")
                 /\ NewIn("artifacts")[i].type \in {"inscription", "sentence"}
           /\ \E i \in 1..Len(NewIn("research_log")) :
                 /\ HasKey(NewIn("research_log")[i], "type")
                 /\ NewIn("research_log")[i].type = "research_note"

C19_Witness ==
    /\ pc = "done" /\ mem.mode = "cycle"
    /\ found = [p \in Paths |-> Missing]
    /\ Len(Stored("artifacts")) = 2
    /\ Stored("artifacts")[1].type = "inscription"
    /\ Stored("artifacts")[2].type = "sentence"
    /\ Len(Stored("research_log")) = 2
    /\ Stored("research_log")[1].type = "research_note"

\* C20: every artifact the gloss-candidate selection picks from the corpus of
\* a cycle either has no gloss that is more than whitespace or has
\* confidence "low"; none has such a gloss and another confidence.
Glossed(a) ==
    Get(Get(a, "metadata", EmptyDict), "gloss", "") \notin {"", " "}

ConfidenceOf(a) == Get(Get(a, "metadata", EmptyDict), "confidence", "none")

C20_CandidatesUnglossedOrLow ==
    (mem.mode = "cycle" /\ pc = "Analyze")
        => LET to_gloss == GlossCandidates(mem.artifacts) IN
           \A i \in 1..Len(to_gloss) :
              ~(Glossed(to_gloss[i]) /\ ConfidenceOf(to_gloss[i]) # "low")

C20_Witness ==
    /\ mem.mode = "cycle" /\ pc = "Analyze"
    /\ LET to_gloss == GlossCandidates(mem.artifacts) IN
       /\ Len(to_gloss) = 2
       /\ Glossed(to_gloss[1]) /\ ConfidenceOf(to_gloss[1]) = "low"
       /\ ~Glossed(to_gloss[2])

(***************************************************************************)
(* Claims about search_artifacts, over the last call.                      *)
(***************************************************************************)
Searched == last.op = "search"

SearchedNames == IF last.fields.given THEN last.fields.names ELSE DefaultFields

\* the keyword, whitespace around it and case set aside, is part of the value
\* of one of the searched fields of a
FieldContainsKeyword(a) ==
    \E i \in 1..Len(SearchedNames) :
        /\ HasKey(a, SearchedNames[i])
        /\ Contains(LowerStr(a[SearchedNames[i]].s), Strip(LowerStr(last.keyword)))

\* C21: search returns exactly the records, in their order, of which one of
\* the searched fields holds the keyword as a case-insensitive substring; a
\* record none of whose searched fields holds the keyword is never returned.
C21_SearchReturnsFieldMatches ==
    (Searched /\ Strip(last.keyword) # <<>>)
        => LET hit == {i \in 1..Len(last.artifacts) :
                          FieldContainsKeyword(last.artifacts[i])}
           IN last.ret = Pick(last.artifacts, hit, 1)

\* C22: a search with an empty or whitespace-only keyword returns nothing,
\* whatever the corpus and the fields.
C22_EmptyKeywordFindsNothing ==
    (Searched /\ \A i \in 1..Len(last.keyword) : last.keyword[i] = " ")
        => last.ret = <<>>

C22_Witness ==
    /\ Searched
    /\ last.keyword = <<" ">>
    /\ Len(last.artifacts) = MaxCorpus
    /\ last.fields = NoFields
    /\ last.ret = <<>>

(***************************************************************************)
(* Claims about the researcher's computations, over the last call.         *)
(***************************************************************************)
LanguageOf(a) == Get(a, "language", "unknown")

\* the languages all of whose records in the corpus are sentences
SentenceOnlyLanguages(artifacts) ==
    {LanguageOf(artifacts[i]) : i \in 1..Len(artifacts)}
        \ {LanguageOf(artifacts[i]) :
              i \in {j \in 1..Len(artifacts) : ~IsSentence(artifacts[j])}}

WithoutSentences(artifacts) ==
    Pick(artifacts, {i \in 1..Len(artifacts) : ~IsSentence(artifacts[i])}, 1)

\* C23: the token statistics hold no token for a language all of whose
\* artifacts are sentences (its count, where one is given, is zero and its
\* top tokens are none), and sentences add no token to the statistics of any
\* language: the statistics are those of the corpus without its sentences.
C23_SentencesGiveNoTokens ==
    last.op = "tokens"
        => /\ \A lang \in SentenceOnlyLanguages(last.artifacts) :
                /\ lang \in DOMAIN last.ret.per_lang_tokens
                      => last.ret.per_lang_tokens[lang] = <<>>
                /\ lang \in DOMAIN last.ret.lang_summaries
                      => /\ last.ret.lang_summaries[lang].token_count = 0
                         /\ last.ret.lang_summaries[lang].top_tokens = <<>>
           /\ last.ret.per_lang_tokens
                 = _extract_tokens_from_artifacts(WithoutSentences(last.artifacts))
           /\ \A lang \in DOMAIN last.ret.lang_summaries :
                 \A k \in 1..Len(last.ret.lang_summaries[lang].top_tokens) :
                    \E i \in 1..Len(last.artifacts) :
                       /\ ~IsSentence(last.artifacts[i])
                       /\ LanguageOf(last.artifacts[i]) = lang
                       /\ \E n \in 1..Len(last.artifacts[i].text) :
                             Lower(last.artifacts[i].text[n])
                                = last.ret.lang_summaries[lang].top_tokens[k]

\* language b has a sentence only, language a an inscription and a sentence
C23_Witness ==
    /\ last.op = "tokens"
    /\ Len(last.artifacts) = 2
    /\ SentenceOnlyLanguages(last.artifacts) = {"b"}
    /\ IsSentence(last.artifacts[1]) /\ LanguageOf(last.artifacts[1]) = "b"
    /\ DOMAIN last.ret.lang_summaries = {"a"}
    /\ last.ret.lang_summaries["a"].token_count = 1
    /\ last.ret.lang_summaries["a"].top_tokens = <<"kar">>

(***************************************************************************)
(* Claims about the cycle: what the analysis and the persistence do.       *)
(***************************************************************************)
AnalysisSteps == {"Analyze", "ContextAnalyze"}

PersistenceSteps ==
    {"PersistArtifacts", "PersistGlossUpdates", "PersistNote",
     "PersistNewQuestions", "PersistQuestionUpdates"}

\* C24: the analysis (analyze_corpus, analyze_contextual_fit) writes nothing:
\* the three stores are the same when it returns or raises as when it began,
\* and in a cycle the records of a store change in a persistence step only.
C24_AnalysisNeverWrites ==
    [][/\ pc \in AnalysisSteps => files' = files
       /\ (mem'.mode = "cycle"
             /\ \E p \in Paths : StoredIn(files'[p]) # StoredIn(files[p]))
            => pc \in PersistenceSteps]_vars

\* the analysis has returned a gloss, a new question and an answer to a stored
\* question, and the stores are as they were when it began
C24_Witness ==
    /\ pc = "PersistGlossUpdates" /\ mem.mode = "cycle"
    /\ Len(mem.glosses) > 0
    /\ Len(mem.new_questions) > 0
    /\ Len(mem.updated_questions) > 0
    /\ files = pre
    /\ Stored("research_questions") # mem.existing_questions
    /\ Len(Stored("research_questions")) = Len(StoredIn(found["research_questions"]))

\* the analysis of the cycle has returned without a new question and without
\* an answered one
AnalysisWithoutQuestions ==
    /\ mem.mode = "cycle"
    /\ mem.note # EmptyDict
    /\ Len(mem.new_questions) = 0
    /\ Len(mem.updated_questions) = 0

\* C25: a full cycle whose analysis yields no new and no updated question is
\* no error: Steps 8 and 9 raise nothing, and when the cycle ends the research
\* note is in the log and the questions stored are those the cycle found.
C25_CycleWithoutQuestionsIsValid ==
    AnalysisWithoutQuestions
        => /\ mem.failed \notin {"PersistNewQuestions", "PersistQuestionUpdates"}
           /\ pc = "PersistNewQuestions" =>
                 \E i \in 1..Len(NewIn("research_log")) :
                    NewIn("research_log")[i] = mem.note
           /\ pc = "done" =>
                 /\ \E i \in 1..Len(NewIn("research_log")) :
                       NewIn("research_log")[i] = mem.note
                 /\ Readable(files["research_questions"])
                 /\ Stored("research_questions") = StoredIn(found["research_questions"])

\* such a cycle has ended over a store of two questions
C25_Witness ==
    /\ AnalysisWithoutQuestions
    /\ pc = "done"
    /\ Len(Stored("research_questions")) = 2
    /\ Stored("research_questions") = StoredIn(found["research_questions"])
    /\ Len(Stored("research_log")) = Len(StoredIn(found["research_log"])) + 2

\* the ids of the questions this cycle's analysis has answered
UpdatedIds ==
    {mem.updated_questions[k].id :
        k \in {j \in 1..Len(mem.updated_questions) : HasKey(mem.updated_questions[j], "id")}}

\* C26: Step 9 works on the question store as it stands when it runs: every
\* question is kept at its place, the questions Step 8 appended in this cycle
\* are unchanged, and a record is changed only if its id is one the analysis
\* of this cycle has answered.
C26_UpdatesMeetTheStoreAsItStands ==
    [][(pc = "PersistQuestionUpdates" /\ mem.mode = "cycle" /\ pc' = "done")
          => LET before == StoredIn(files["research_questions"])
                 after == StoredIn(files'["research_questions"])
                 old == Len(StoredIn(found["research_questions"]))
             IN /\ Len(after) = Len(before)
                /\ Len(before) = old + Len(mem.new_questions)
                /\ \A i \in 1..Len(before) :
                      /\ i > old => /\ after[i] = before[i]
                                    /\ after[i] = mem.new_questions[i - old].d
                      /\ after[i] # before[i]
                            => HasKey(before[i], "id") /\ before[i].id \in UpdatedIds]_vars

\* a cycle has appended a question and then updated the first of two it found
C26_Witness ==
    /\ pc = "done" /\ mem.mode = "cycle"
    /\ Len(mem.new_questions) = 1
    /\ Len(mem.updated_questions) = 1
    /\ Len(StoredIn(found["research_questions"])) = 2
    /\ Len(Stored("research_questions")) = 3
    /\ Stored("research_questions")[3] = mem.new_questions[1].d
    /\ Stored("research_questions")[1] # StoredIn(found["research_questions"])[1]
    /\ Stored("research_questions")[1].id \in UpdatedIds
    /\ Stored("research_questions")[2] = StoredIn(found["research_questions"])[2]

Reviewed == last.op = "review"

HasAnswer(q) == ~Blank(Get(q, "proposed_answer", ""))

ConfidenceSet(q) == LowerConfidence(Get(q, "confidence", ""))

\* C27 as stated: the questions presented for review are exactly the open
\* ones: a question is presented if and only if it has no proposed answer or
\* its confidence is low or medium.
C27_ReviewIsOpenQuestions ==
    Reviewed
        => last.ret = Pick(last.existing_questions,
                           {i \in 1..Len(last.existing_questions) :
                               LET q == last.existing_questions[i] IN
                               ~HasAnswer(q) \/ ConfidenceSet(q) \in {"low", "medium"}},
                           1)

\* C27, amended: a question is presented if and only if it has no proposed
\* answer, or no confidence is set on it (the field is absent or empty), or
\* its confidence is low or medium; the questions keep their order.
C27_ReviewIsOpenOrUnrated ==
    Reviewed
        => last.ret = Pick(last.existing_questions,
                           {i \in 1..Len(last.existing_questions) :
                               LET q == last.existing_questions[i] IN
                               \/ ~HasAnswer(q)
                               \/ ConfidenceSet(q) = ""
                               \/ ConfidenceSet(q) \in {"low", "medium"}},
                           1)

\* an answered question without confidence is presented, one answered with
\* high confidence is not
C27_Witness ==
    /\ Reviewed
    /\ Len(last.existing_questions) = 2
    /\ HasAnswer(last.existing_questions[1])
    /\ ~HasKey(last.existing_questions[1], "confidence")
    /\ HasAnswer(last.existing_questions[2])
    /\ ConfidenceSet(last.existing_questions[2]) = "high"
    /\ last.ret = <<last.existing_questions[1]>>

\* an inscription that a gloss update has glossed and whose word, lowercased,
\* is a token of a sentence of the corpus
GlossedWordInSentence(artifacts) ==
    \E i \in 1..Len(artifacts), j \in 1..Len(artifacts) :
        /\ Get(artifacts[i], "type", "") = "inscription"
        /\ HasGloss(artifacts[i])
        /\ artifacts[i].metadata.gloss_updated_at # NoneTs
        /\ Len(artifacts[i].text) = 1
        /\ IsSentence(artifacts[j])
        /\ Lower(artifacts[i].text[1]) \in SentenceTokens(artifacts[j])

\* C28: once a gloss update has been applied to an inscription whose
\* lowercased text is a token of a sentence, the contextual-fit analysis that
\* follows covers that word: its words-analyzed count is at least 1.
C28_GlossedWordsAreAnalyzed ==
    (/\ mem.mode = "cycle"
     /\ mem.context_note # EmptyDict
     /\ GlossedWordInSentence(mem.artifacts))
        => mem.context_note.metadata.words_analyzed >= 1

\* the places of the corpus that qualify: among the last 20, no sentence, and
\* without a gloss or with confidence low
QualifyingPlaces(artifacts) ==
    {i \in 1..Len(artifacts) :
        /\ i > Len(artifacts) - 20
        /\ Get(artifacts[i], "type", "") # "sentence"
        /\ ~Glossed(artifacts[i]) \/ ConfidenceOf(artifacts[i]) = "low"}

\* C29: the gloss candidates are records among the last 20 of the corpus, none
\* of them a sentence, at most 8 of them; they are the most recent qualifying
\* records (all of them when no more than 8 qualify), in corpus order.
C29_CandidatesRecentAndCapped ==
    last.op = "candidates"
        => LET places == QualifyingPlaces(last.artifacts)
               chosen == {i \in places : Cardinality({j \in places : j > i}) < 8}
           IN /\ Len(last.ret) <= 8
              /\ \A k \in 1..Len(last.ret) : ~IsSentence(last.ret[k])
              /\ last.ret = Pick(last.artifacts, chosen, 1)

\* of a corpus of twelve inscriptions and twelve sentences ten inscriptions
\* are in the window; the eight most recent are chosen
C29_Witness ==
    /\ last.op = "candidates"
    /\ Len(last.artifacts) = 24
    /\ IsSentence(last.artifacts[24])
    /\ Cardinality(QualifyingPlaces(last.artifacts)) = 10
    /\ Len(last.ret) = 8
    /\ last.ret[1] = last.artifacts[9]
    /\ last.ret[8] = last.artifacts[23]

(***************************************************************************)
(* Claims about the store, continued.                                      *)
(***************************************************************************)
\* C30: a load of a document that is a list drops no entry: it returns as
\* many elements as the list holds, a record unchanged at its place, and for
\* an entry at place i (from 0) that is no record a placeholder with i and
\* the entry's value.
C30_LoadDropsNothing ==
    (last.op = "load" /\ last.pre.kind = "list")
        => /\ ~last.raised
           /\ Len(last.ret) = Len(last.pre.items)
           /\ \A k \in 1..Len(last.pre.items) :
                 IF last.pre.items[k].isdict
                 THEN last.ret[k] = last.pre.items[k].d
                 ELSE /\ DOMAIN last.ret[k] = {"_invalid_index", "value"}
                      /\ last.ret[k]._invalid_index = k - 1
                      /\ last.ret[k].value = last.pre.items[k].v

\* a list of a record and, after it, an entry that is no record has been loaded
C30_Witness ==
    /\ last.op = "load"
    /\ last.pre.kind = "list"
    /\ Len(last.pre.items) = 2
    /\ last.pre.items[1].isdict
    /\ ~last.pre.items[2].isdict
    /\ last.ret[1] = last.pre.items[1].d
    /\ last.ret[2]._invalid_index = 1

(***************************************************************************)
(* Claims about the cycle: ids and what the service's proposals may touch. *)
(***************************************************************************)
\* C31: no two records of the question store have the same id, whatever the
\* clock does between the questions one cycle persists, so that an update
\* keyed by id changes at most one record.
C31_QuestionIdsUnique ==
    mem.mode = "cycle"
        => \A i, j \in 1..Len(Stored("research_questions")) :
              (/\ i # j
               /\ HasKey(Stored("research_questions")[i], "id")
               /\ HasKey(Stored("research_questions")[j], "id"))
                  => Stored("research_questions")[i].id # Stored("research_questions")[j].id

\* C32: in a full cycle Step 5 changes only artifacts that the analysis of the
\* cycle selected as gloss candidates; a proposal that names another artifact
\* changes nothing.
C32_OnlyCandidatesAreGlossed ==
    [][(pc = "PersistGlossUpdates" /\ mem.mode = "cycle")
          => LET before == StoredIn(files["artifacts"])
                 after == StoredIn(files'["artifacts"])
                 to_gloss == GlossCandidates(mem.artifacts)
             IN \A i \in 1..Len(before) :
                   (Len(after) >= i /\ after[i] # before[i])
                      => \E k \in 1..Len(to_gloss) : to_gloss[k] = before[i]]_vars

\* C33: in a full cycle a question that was not presented for review is not
\* updated: an answer the service proposes for its id is dropped and the
\* stored question stays as the cycle found it.
C33_OnlyReviewedQuestionsAreUpdated ==
    mem.mode = "cycle"
        => LET old == StoredIn(found["research_questions"])
               presented == questions_to_review(old)
           IN \A i \in 1..Len(old) :
                 (\A k \in 1..Len(presented) : presented[k] # old[i])
                    => /\ Len(Stored("research_questions")) >= i
                       /\ Stored("research_questions")[i] = old[i]

====
